---- MODULE Spec2Model ----
(***************************************************************************)
(* Model of passgen_ui: the vault storage engine                           *)
(* (src/src/passgen_core/storage.rs), the password generator and its form  *)
(* (src/src/passgen_core/app.rs) and the key-driven session (fn run of     *)
(* src/src/main.rs).                                                       *)
(*                                                                         *)
(* The vault file is an Option: <<>> when the path does not exist, and     *)
(* <<envelope>> when it does.  The same encoding is used for the caller's  *)
(* Option<Storage>.  Cryptography is symbolic: a key is the pair it was    *)
(* derived from, a ciphertext records the key and nonce that sealed it,    *)
(* and AES-GCM decryption succeeds exactly when both match.                *)
(***************************************************************************)
EXTENDS Integers, Sequences, FiniteSets, TLC

\* ---------------------------------------------------------------- bounds
MaxEntries == 2
NumSalts == 2
NumNonces == 2

\* ---------------------------------------------------------------- inputs
Passphrases == {"hunter2", "wrong"}
Salts == 1..NumSalts
Nonces == 1..NumNonces
EntryNames == {"github", "mail"}
EntryPasswords == {"pw1"}
Timestamps == {"1700000000"}
PasswordEntry == [name : EntryNames, password : EntryPasswords, created_at : Timestamps]
Indices == 0..MaxEntries

\* Error texts of storage.rs
ErrDecrypt == "Decryption failed - wrong master password?"
ErrIndex == "Invalid index"
ErrWrite == "Failed to write file"
ErrRead == "Failed to read file"

VaultPath == "~/.passgen_vault.enc"

\* ------------------------------------------------------------ primitives
\* derive_key: deterministic in (password, salt); collisions of the 32-byte
\* output are idealised away, so the key is the pair itself.
DeriveKey(password, salt) == <<password, salt>>

\* BASE64.encode / BASE64.decode
Base64Encode(bytes) == <<"b64", bytes>>
Base64Decode(text) == text[2]

\* serde_json::to_string(&[PasswordEntry]) / serde_json::from_str
ToJson(entries) ==
  [i \in 1..Len(entries) |->
     <<entries[i].name, entries[i].password, entries[i].created_at>>]
FromJson(json) ==
  [i \in 1..Len(json) |->
     [name |-> json[i][1], password |-> json[i][2], created_at |-> json[i][3]]]

\* Aes256Gcm encrypt / decrypt
Encrypt(key, nonce, plaintext) == [key |-> key, nonce |-> nonce, pt |-> plaintext]
DecryptNoAuth(key, nonce, ct) == [ok |-> TRUE, pt |-> ct.pt]
Decrypt(key, nonce, ct) ==
  IF ct.key = key /\ ct.nonce = nonce
  THEN [ok |-> TRUE, pt |-> ct.pt]
  ELSE [ok |-> FALSE, pt |-> <<>>]

\* struct EncryptedStore
EncryptedStore(salt, nonce, ciphertext) ==
  [salt |-> salt, nonce |-> nonce, ciphertext |-> ciphertext]

\* file_path.exists()
Exists(f) == f # <<>>

\* struct Storage
Storage(key) == [file_path |-> VaultPath, master_key |-> key]

\* ------------------------------------------------------------ operations
\* Storage::new.  freshSalt is the value rand fills in when no file exists;
\* readOk is whether fs::read_to_string succeeds on an existing file.
StorageNew(master_password, f, freshSalt, readOk) ==
  IF Exists(f)
  THEN IF readOk
       THEN [ok |-> TRUE, err |-> "",
             store |-> <<Storage(DeriveKey(master_password, Base64Decode(f[1].salt)))>>]
       ELSE [ok |-> FALSE, err |-> ErrRead, store |-> <<>>]
  ELSE [ok |-> TRUE, err |-> "",
        store |-> <<Storage(DeriveKey(master_password, freshSalt))>>]

\* Storage::load
LoadMissingIsError(st, f) ==
  IF ~Exists(f)
  THEN [ok |-> FALSE, err |-> "Failed to read file", entries |-> <<>>]
  ELSE LET d == Decrypt(st.master_key, Base64Decode(f[1].nonce),
                        Base64Decode(f[1].ciphertext))
       IN IF d.ok THEN [ok |-> TRUE, err |-> "", entries |-> FromJson(d.pt)]
          ELSE [ok |-> FALSE, err |-> ErrDecrypt, entries |-> <<>>]
Load(st, f) ==
  IF ~Exists(f)
  THEN [ok |-> TRUE, err |-> "", entries |-> <<>>]
  ELSE LET d == Decrypt(st.master_key, Base64Decode(f[1].nonce),
                        Base64Decode(f[1].ciphertext))
       IN IF d.ok THEN [ok |-> TRUE, err |-> "", entries |-> FromJson(d.pt)]
          ELSE [ok |-> FALSE, err |-> ErrDecrypt, entries |-> <<>>]

\* Storage::save_all.  nonce and freshSalt are the random draws; writeOk is
\* whether fs::write succeeds (a failed write leaves the file as it was).
SaveAll(st, f, entries, nonce, freshSalt, writeOk) ==
  LET ciphertext == Encrypt(st.master_key, nonce, ToJson(entries))
      salt == IF Exists(f) THEN f[1].salt ELSE Base64Encode(freshSalt)
      out == EncryptedStore(salt, Base64Encode(nonce), Base64Encode(ciphertext))
  IN IF writeOk THEN [ok |-> TRUE, err |-> "", file |-> <<out>>]
     ELSE [ok |-> FALSE, err |-> ErrWrite, file |-> f]

\* Storage::save: load().unwrap_or_default(), push, save_all
Save(st, f, entry, nonce, freshSalt, writeOk) ==
  LET l == Load(st, f)
      entries == IF l.ok THEN l.entries ELSE <<>>
  IN SaveAll(st, f, Append(entries, entry), nonce, freshSalt, writeOk)

\* Vec::remove(index), index counted from 0
Remove(entries, index) ==
  [j \in 1..(Len(entries) - 1) |-> IF j <= index THEN entries[j] ELSE entries[j + 1]]

\* Storage::delete
DeleteRemovesLast(st, f, index, nonce, freshSalt, writeOk) ==
  LET l == Load(st, f)
  IN IF ~l.ok THEN [ok |-> FALSE, err |-> l.err, file |-> f]
     ELSE IF index >= Len(l.entries) THEN [ok |-> FALSE, err |-> ErrIndex, file |-> f]
     ELSE SaveAll(st, f, SubSeq(l.entries, 1, Len(l.entries) - 1),
                  nonce, freshSalt, writeOk)
Delete(st, f, index, nonce, freshSalt, writeOk) ==
  LET l == Load(st, f)
  IN IF ~l.ok THEN [ok |-> FALSE, err |-> l.err, file |-> f]
     ELSE IF index >= Len(l.entries) THEN [ok |-> FALSE, err |-> ErrIndex, file |-> f]
     ELSE SaveAll(st, f, Remove(l.entries, index), nonce, freshSalt, writeOk)

\* Storage::update
UpdateUnchecked(st, f, index, entry, nonce, freshSalt, writeOk) ==
  LET l == Load(st, f)
  IN IF ~l.ok THEN [ok |-> FALSE, err |-> l.err, file |-> f]
     ELSE SaveAll(st, f,
                  [j \in 1..Len(l.entries) |->
                     IF j = index + 1 THEN entry ELSE l.entries[j]],
                  nonce, freshSalt, writeOk)
UpdateFirst(st, f, index, entry, nonce, freshSalt, writeOk) ==
  LET l == Load(st, f)
  IN IF ~l.ok THEN [ok |-> FALSE, err |-> l.err, file |-> f]
     ELSE IF index >= Len(l.entries) THEN [ok |-> FALSE, err |-> ErrIndex, file |-> f]
     ELSE SaveAll(st, f, [l.entries EXCEPT ![1] = entry], nonce, freshSalt, writeOk)
Update(st, f, index, entry, nonce, freshSalt, writeOk) ==
  LET l == Load(st, f)
  IN IF ~l.ok THEN [ok |-> FALSE, err |-> l.err, file |-> f]
     ELSE IF index >= Len(l.entries) THEN [ok |-> FALSE, err |-> ErrIndex, file |-> f]
     ELSE SaveAll(st, f, [l.entries EXCEPT ![index + 1] = entry],
                  nonce, freshSalt, writeOk)

\* Storage::change_master_password
ChangeKeepsSalt(st, f, new_password, new_salt, nonce, writeOk) ==
  LET l == Load(st, f)
      new_key == DeriveKey(new_password, new_salt)
      ciphertext == Encrypt(new_key, nonce, ToJson(l.entries))
      salt == IF Exists(f) THEN f[1].salt ELSE Base64Encode(new_salt)
      out == EncryptedStore(salt, Base64Encode(nonce), Base64Encode(ciphertext))
  IN IF ~l.ok THEN [ok |-> FALSE, err |-> l.err, file |-> f, store |-> <<>>]
     ELSE IF ~writeOk THEN [ok |-> FALSE, err |-> ErrWrite, file |-> f, store |-> <<>>]
     ELSE [ok |-> TRUE, err |-> "", file |-> <<out>>, store |-> <<Storage(new_key)>>]
ChangeMasterPassword(st, f, new_password, new_salt, nonce, writeOk) ==
  LET l == Load(st, f)
      new_key == DeriveKey(new_password, new_salt)
      ciphertext == Encrypt(new_key, nonce, ToJson(l.entries))
      out == EncryptedStore(Base64Encode(new_salt), Base64Encode(nonce),
                            Base64Encode(ciphertext))
  IN IF ~l.ok THEN [ok |-> FALSE, err |-> l.err, file |-> f, store |-> <<>>]
     ELSE IF ~writeOk THEN [ok |-> FALSE, err |-> ErrWrite, file |-> f, store |-> <<>>]
     ELSE [ok |-> TRUE, err |-> "", file |-> <<out>>, store |-> <<Storage(new_key)>>]

\* ------------------------------------------------------- password generator
\* (src/src/passgen_core/app.rs).  A String is a sequence of one-character
\* strings; an Option is <<>> (None) or <<x>> (Some(x)).

\* enum InputField
InputFields == {"Name", "Length", "ToggleSpecial", "ToggleLetters", "ToggleNumbers", "Generate"}

\* InputField::next
InputFieldNextSkipsLetters(f) ==
  CASE f = "Name" -> "Length"
    [] f = "Length" -> "ToggleSpecial"
    [] f = "ToggleSpecial" -> "ToggleNumbers"
    [] f = "ToggleLetters" -> "ToggleNumbers"
    [] f = "ToggleNumbers" -> "Generate"
    [] f = "Generate" -> "Name"
InputFieldNext(f) ==
  CASE f = "Name" -> "Length"
    [] f = "Length" -> "ToggleSpecial"
    [] f = "ToggleSpecial" -> "ToggleLetters"
    [] f = "ToggleLetters" -> "ToggleNumbers"
    [] f = "ToggleNumbers" -> "Generate"
    [] f = "Generate" -> "Name"

\* InputField::prev
InputFieldPrev(f) ==
  CASE f = "Name" -> "Generate"
    [] f = "Length" -> "Name"
    [] f = "ToggleSpecial" -> "Length"
    [] f = "ToggleLetters" -> "ToggleSpecial"
    [] f = "ToggleNumbers" -> "ToggleLetters"
    [] f = "Generate" -> "ToggleNumbers"

\* Error texts of App::generate
ErrName == "Please enter a password name"
ErrRange == "Length must be 1-128"
ErrInvalidLength == "Invalid length"
ErrNoClass == "Enable at least one character type"

\* The character classes of App::generate
LowerChars ==
  <<"a", "b", "c", "d", "e", "f", "g", "h", "i", "j", "k", "l", "m", "n",
  "o", "p", "q", "r", "s", "t", "u", "v", "w", "x", "y", "z">>
UpperChars ==
  <<"A", "B", "C", "D", "E", "F", "G", "H", "I", "J", "K", "L", "M", "N",
  "O", "P", "Q", "R", "S", "T", "U", "V", "W", "X", "Y", "Z">>
DigitChars == <<"0", "1", "2", "3", "4", "5", "6", "7", "8", "9">>
SpecialChars ==
  <<"!", "@", "#", "$", "%", "^", "&", "*", "(", ")", "_", "+", "-", "=",
  "[", "]", "{", "}", "|", ";", ":", ",", ".", "<", ">", "?">>

\* App::new
AppNew ==
  [name_input |-> <<>>, length_input |-> <<"1", "6">>,
   use_special |-> TRUE, use_letters |-> TRUE, use_numbers |-> TRUE,
   active_field |-> "Name", generated_password |-> <<>>,
   error |-> <<>>, status_message |-> <<>>]

\* char::is_whitespace, for the characters the model types
IsWhitespace(c) == c \in {" ", "\t", "\n"}

\* str::trim: drop leading and trailing whitespace
RECURSIVE TrimStart(_)
TrimStart(t) ==
  IF t # <<>> /\ IsWhitespace(Head(t)) THEN TrimStart(Tail(t)) ELSE t
RECURSIVE TrimEnd(_)
TrimEnd(t) ==
  IF t # <<>> /\ IsWhitespace(t[Len(t)]) THEN TrimEnd(SubSeq(t, 1, Len(t) - 1)) ELSE t
Trim(t) == TrimEnd(TrimStart(t))

\* The value of a decimal digit character
DigitValue(c) ==
  CASE c = "0" -> 0 [] c = "1" -> 1 [] c = "2" -> 2 [] c = "3" -> 3 [] c = "4" -> 4
    [] c = "5" -> 5 [] c = "6" -> 6 [] c = "7" -> 7 [] c = "8" -> 8 [] c = "9" -> 9

RECURSIVE DecimalValue(_)
DecimalValue(t) ==
  IF t = <<>> THEN 0 ELSE 10 * DecimalValue(SubSeq(t, 1, Len(t) - 1)) + DigitValue(t[Len(t)])

\* str::parse::<usize>: a lone sign is an error, one leading "+" is accepted, a
\* "-" is not a digit of an unsigned type, and every other character must be
\* a decimal digit.  (The texts of the model are too short to overflow usize.)
ParseSigned(t) ==
  LET digits == IF Len(t) > 1 /\ t[1] \in {"+", "-"} THEN Tail(t) ELSE t
      neg == Len(t) > 1 /\ t[1] = "-"
  IN IF t = <<>> \/ \E i \in 1..Len(digits) : digits[i] \notin {DigitChars[k] : k \in 1..10}
     THEN [ok |-> FALSE, val |-> 0]
     ELSE [ok |-> TRUE, val |-> IF neg THEN 0 - DecimalValue(digits) ELSE DecimalValue(digits)]
ParseUsize(t) ==
  LET digits == IF Len(t) > 1 /\ t[1] = "+" THEN Tail(t) ELSE t
  IN IF t = <<>> \/ \E i \in 1..Len(digits) : digits[i] \notin {DigitChars[k] : k \in 1..10}
     THEN [ok |-> FALSE, val |-> 0]
     ELSE [ok |-> TRUE, val |-> DecimalValue(digits)]

\* rng.random_range(0..n) for the i-th character: some index below n.  draw
\* picks one of a few streams of indices; stream 0 walks through the charset.
RandomRange(draw, i, n) == ((draw + 1) * (i - 1) + 7 * draw) % n

\* The charset App::generate builds from the three flags
CharsetDigitsAlways(a) ==
  (IF a.use_letters THEN LowerChars \o UpperChars ELSE <<>>)
    \o DigitChars
    \o (IF a.use_special THEN SpecialChars ELSE <<>>)
Charset(a) ==
  (IF a.use_letters THEN LowerChars \o UpperChars ELSE <<>>)
    \o (IF a.use_numbers THEN DigitChars ELSE <<>>)
    \o (IF a.use_special THEN SpecialChars ELSE <<>>)

\* The length check of App::generate: Ok(n) if n > 0 && n <= 128
LengthInRange(n) == n > 0 /\ n <= 128

\* App::generate
GenerateKeepsPassword(a, draw) ==
  LET cleared == [a EXCEPT !.error = <<>>, !.status_message = <<>>]
      parsed == ParseUsize(a.length_input)
      chars == Charset(a)
  IN IF Trim(a.name_input) = <<>> THEN [cleared EXCEPT !.error = <<ErrName>>]
     ELSE IF ~parsed.ok THEN [cleared EXCEPT !.error = <<ErrInvalidLength>>]
     ELSE IF ~LengthInRange(parsed.val) THEN [cleared EXCEPT !.error = <<ErrRange>>]
     ELSE IF chars = <<>> THEN [cleared EXCEPT !.error = <<ErrNoClass>>]
     ELSE [cleared EXCEPT !.generated_password =
             <<[i \in 1..parsed.val |-> chars[RandomRange(draw, i, Len(chars)) + 1]]>>]
Generate(a, draw) ==
  LET cleared == [a EXCEPT !.error = <<>>, !.status_message = <<>>,
                           !.generated_password = <<>>]
      parsed == ParseUsize(a.length_input)
      chars == Charset(a)
  IN IF Trim(a.name_input) = <<>> THEN [cleared EXCEPT !.error = <<ErrName>>]
     ELSE IF ~parsed.ok THEN [cleared EXCEPT !.error = <<ErrInvalidLength>>]
     ELSE IF ~LengthInRange(parsed.val) THEN [cleared EXCEPT !.error = <<ErrRange>>]
     ELSE IF chars = <<>> THEN [cleared EXCEPT !.error = <<ErrNoClass>>]
     ELSE [cleared EXCEPT !.generated_password =
             <<[i \in 1..parsed.val |-> chars[RandomRange(draw, i, Len(chars)) + 1]]>>]

\* chrono_timestamp: the clock's seconds, as decimal text
ChronoTimestamp == "1700000000"

\* App::get_entry
GetEntry(a) ==
  IF a.generated_password = <<>> THEN <<>>
  ELSE <<[name |-> a.name_input, password |-> a.generated_password[1],
          created_at |-> ChronoTimestamp]>>

\* ----------------------------------------------------------------- state
VARIABLES
  file,    \* the vault file: <<>> or <<EncryptedStore>>
  store,   \* the caller's Option<Storage>: <<>> or <<Storage>>
  op,      \* the last call made: its receiver (<<>> for new), name and arguments
  res,     \* what the last call returned
  app,     \* the App of the session (name, length, flags, field, result, messages)
  phase,   \* run's Phase with its payload: <<tag>> or <<tag, step or mode>>
  master_input,      \* run's master_input text
  new_password,      \* run's new_password text
  confirm_password,  \* run's confirm_password text
  viewer_state,      \* run's Option<ViewerState>
  running            \* FALSE once run has returned

\* What the storage calls do not touch, and everything.
sessionVars ==
  <<app, phase, master_input, new_password, confirm_password, viewer_state, running>>
vars == <<file, store, op, res, sessionVars>>

NoEntry == [name |-> "", password |-> "", created_at |-> ""]
Call(self, name, pass, index, entry) ==
  [self |-> self, name |-> name, pass |-> pass, index |-> index, entry |-> entry]
Result(ok, err, entries) == [ok |-> ok, err |-> err, entries |-> entries]

\* The entries sealed in the file, whoever holds the key (bookkeeping only).
Stored(f) == IF Exists(f) THEN FromJson(Base64Decode(f[1].ciphertext).pt) ELSE <<>>

Init ==
  /\ file = <<>>
  /\ store = <<>>
  /\ op = Call(<<>>, "none", "", 0, NoEntry)
  /\ res = Result(TRUE, "", <<>>)
  /\ app = AppNew
  /\ phase = <<"MasterPassword">>
  /\ master_input = <<>>
  /\ new_password = <<>>
  /\ confirm_password = <<>>
  /\ viewer_state = <<>>
  /\ running = TRUE

\* Storage::new(master_password), the result bound by the caller
New(master_password, freshSalt, readOk) ==
  LET r == StorageNew(master_password, file, freshSalt, readOk)
  IN /\ store' = IF r.ok THEN r.store ELSE store
     /\ op' = Call(<<>>, "new", master_password, 0, NoEntry)
     /\ res' = Result(r.ok, r.err, <<>>)
     /\ UNCHANGED file

\* store.load()
LoadOp ==
  /\ store # <<>>
  /\ LET r == Load(store[1], file)
     IN /\ op' = Call(store, "load", "", 0, NoEntry)
        /\ res' = Result(r.ok, r.err, r.entries)
        /\ UNCHANGED <<file, store>>

\* store.save(entry)
SaveOp(entry, nonce, freshSalt, writeOk) ==
  /\ store # <<>>
  /\ Len(Load(store[1], file).entries) < MaxEntries
  /\ LET r == Save(store[1], file, entry, nonce, freshSalt, writeOk)
     IN /\ file' = r.file
        /\ op' = Call(store, "save", "", 0, entry)
        /\ res' = Result(r.ok, r.err, <<>>)
        /\ UNCHANGED store

\* store.delete(index)
DeleteOp(index, nonce, freshSalt, writeOk) ==
  /\ store # <<>>
  /\ LET r == Delete(store[1], file, index, nonce, freshSalt, writeOk)
     IN /\ file' = r.file
        /\ op' = Call(store, "delete", "", index, NoEntry)
        /\ res' = Result(r.ok, r.err, <<>>)
        /\ UNCHANGED store

\* store.update(index, entry)
UpdateOp(index, entry, nonce, freshSalt, writeOk) ==
  /\ store # <<>>
  /\ LET r == Update(store[1], file, index, entry, nonce, freshSalt, writeOk)
     IN /\ file' = r.file
        /\ op' = Call(store, "update", "", index, entry)
        /\ res' = Result(r.ok, r.err, <<>>)
        /\ UNCHANGED store

\* store.change_master_password(new_password); on success the caller rebinds
\* to the returned store (main.rs), on failure it keeps the one it has.
ChangeOp(new_pw, new_salt, nonce, writeOk) ==
  /\ store # <<>>
  /\ LET r == ChangeMasterPassword(store[1], file, new_pw, new_salt, nonce, writeOk)
     IN /\ file' = r.file
        /\ store' = IF r.ok THEN r.store ELSE store
        /\ op' = Call(store, "change_master_password", new_pw, 0, NoEntry)
        /\ res' = Result(r.ok, r.err, <<>>)

\* The random draws an outcome can depend on.  rand is asked for a salt only
\* on the paths that use one: Storage::new and save_all draw it when the file
\* does not exist (delete and update reach save_all only with an existing
\* file).  A nonce or salt drawn before a write that fails is dropped.
SaltDraws(f) == IF Exists(f) THEN {1} ELSE Salts
NonceDraws(writeOk) == IF writeOk THEN Nonces ELSE {1}
NewSaltDraws(writeOk) == IF writeOk THEN Salts ELSE {1}
\* A read can fail only of a file that exists.
ReadOutcomes(f) == IF Exists(f) THEN BOOLEAN ELSE {TRUE}

Next ==
  \/ \E p \in Passphrases, s \in SaltDraws(file), r \in ReadOutcomes(file) :
       New(p, s, r) /\ UNCHANGED sessionVars
  \/ LoadOp /\ UNCHANGED sessionVars
  \/ \E e \in PasswordEntry, s \in SaltDraws(file), w \in BOOLEAN :
       \E n \in NonceDraws(w) : SaveOp(e, n, s, w) /\ UNCHANGED sessionVars
  \/ \E i \in Indices, s \in SaltDraws(file), w \in BOOLEAN :
       \E n \in NonceDraws(w) : DeleteOp(i, n, s, w) /\ UNCHANGED sessionVars
  \/ \E i \in Indices, e \in PasswordEntry, s \in SaltDraws(file), w \in BOOLEAN :
       \E n \in NonceDraws(w) : UpdateOp(i, e, n, s, w) /\ UNCHANGED sessionVars
  \/ \E p \in Passphrases, w \in BOOLEAN :
       \E s \in NewSaltDraws(w), n \in NonceDraws(w) :
         ChangeOp(p, s, n, w) /\ UNCHANGED sessionVars

Spec == Init /\ [][Next]_vars

\* ------------------------------------------------------------ properties
Writes == {"save", "delete", "update", "change_master_password"}
Ok(entries) == [ok |-> TRUE, err |-> "", entries |-> entries]

\* The passphrase a store's key was derived from, and the key that sealed a file.
PassOf(st) == st[1].master_key[1]
SealKey(f) == Base64Decode(f[1].ciphertext).key

\* open(p) in a later session, then load(): Storage::new followed by load on
\* the file as it is and readable.  The result is a set because new may draw
\* a salt.
Reopened(p, f) == {Load(StorageNew(p, f, s, TRUE).store[1], f) : s \in Salts}

\* C1: persistence across sessions.  When the vault file does not exist and a
\* store opened with passphrase p saves entry e successfully, opening the
\* vault again with p and loading succeeds and returns exactly <<e>>.
C1_PersistsAcrossSessions ==
  [][(op'.name = "save" /\ res'.ok /\ ~Exists(file))
       => \A l \in Reopened(PassOf(store), file') : l = Ok(<<op'.entry>>)]_vars

\* C2: after every successful write of the vault file the salt in the envelope
\* is the salt the sealing key was derived from; save, delete and update on an
\* existing file keep its salt, and the first save on a new vault writes the
\* salt that Storage::new drew for the store.
C2_EnvelopeSaltIsKeySalt ==
  [][(op'.name \in Writes /\ res'.ok)
       => /\ Exists(file')
          /\ \E p \in Passphrases :
               SealKey(file') = DeriveKey(p, Base64Decode(file'[1].salt))
          /\ (Exists(file) /\ op'.name # "change_master_password")
               => file'[1].salt = file[1].salt
          /\ (~Exists(file) /\ op'.name = "save")
               => Base64Decode(file'[1].salt) = store[1].master_key[2]]_vars

\* C3: save treats a failure of its internal load as fatal: when load fails
\* for the store, save returns an error and the vault file is unchanged.
C3_SaveFailsWhenLoadFails ==
  [][(op'.name = "save" /\ ~Load(store[1], file).ok)
       => (~res'.ok /\ file' = file)]_vars

\* C4: for an existing vault file sealed under passphrase p and every
\* passphrase q # p, load on a store opened with q fails with the
\* authentication error and returns no entry list; the same holds of the load
\* the caller actually made on a store whose passphrase is not the sealing one.
C4_WrongPassphraseNeverLoads ==
  Exists(file) =>
    /\ \A q \in Passphrases \ {SealKey(file)[1]} :
         \A l \in Reopened(q, file) :
           ~l.ok /\ l.err = ErrDecrypt /\ l.entries = <<>>
    /\ (op.name = "load" /\ PassOf(store) # SealKey(file)[1])
         => (~res.ok /\ res.err = ErrDecrypt /\ res.entries = <<>>)

C4_Witness ==
  /\ op.name = "load"
  /\ Exists(file)
  /\ Stored(file) # <<>>
  /\ PassOf(store) # SealKey(file)[1]
  /\ ~res.ok

\* C5: each successful save on a store appends: load on that store then
\* returns the entries stored in the vault before the call followed by the
\* saved entry, so N successful saves in a row leave the previously stored
\* entries followed by the N saved ones in call order.
C5_SavesAppendInCallOrder ==
  [][(op'.name = "save" /\ res'.ok)
       => Load(store'[1], file') = Ok(Append(Stored(file), op'.entry))]_vars

\* C6 as claimed: after a successful change_master_password(new) on a store
\* that loads L, reopening with the old passphrase and loading fails, and
\* reopening with new and loading returns exactly L.
C6_RotationLocksOutOldPassphrase ==
  [][(op'.name = "change_master_password" /\ res'.ok)
       => /\ \A l \in Reopened(PassOf(store), file') : ~l.ok
          /\ \A l \in Reopened(op'.pass, file') :
               l = Ok(Load(store[1], file).entries)]_vars

\* C6 amended: reopening with new and loading returns exactly L; reopening
\* with the old passphrase and loading fails when new differs from the old
\* passphrase.
C6_RotationAmended ==
  [][(op'.name = "change_master_password" /\ res'.ok)
       => /\ Load(store[1], file).ok
          /\ (op'.pass # PassOf(store))
               => \A l \in Reopened(PassOf(store), file') :
                    ~l.ok /\ l.err = ErrDecrypt
          /\ \A l \in Reopened(op'.pass, file') :
               l = Ok(Load(store[1], file).entries)]_vars

C6_Witness ==
  /\ op.name = "change_master_password"
  /\ res.ok
  /\ op.pass # PassOf(op.self)
  /\ Len(Stored(file)) = MaxEntries
  /\ \A l \in Reopened(op.pass, file) : l = Ok(Stored(file))

C8_OutOfRangeIndexLeavesFile ==
  [][(op'.name \in {"delete", "update"} /\ Load(store[1], file).ok
        /\ op'.index >= Len(Load(store[1], file).entries))
       => (~res'.ok /\ res'.err = ErrIndex /\ file' = file)]_vars

C8_Witness ==
  /\ op.name \in {"delete", "update"}
  /\ ~res.ok
  /\ res.err = ErrIndex
  /\ Stored(file) # <<>>
  /\ op.index >= Len(Stored(file))

\* C9: update(i, e) with i < len(entries) replaces only index i: load then
\* returns a list of the same length whose element i is e and whose other
\* elements are unchanged (the call can fail only in the write).
C9_UpdateReplacesOnlyIndex ==
  [][(op'.name = "update" /\ Load(store[1], file).ok
        /\ op'.index < Len(Load(store[1], file).entries))
       => LET old == Load(store[1], file).entries
              new == Load(store'[1], file')
              i == op'.index
          IN /\ res'.ok \/ (res'.err = ErrWrite /\ file' = file)
             /\ res'.ok =>
                  /\ new.ok
                  /\ Len(new.entries) = Len(old)
                  /\ new.entries[i + 1] = op'.entry
                  /\ \A j \in 0..(Len(old) - 1) :
                       j # i => new.entries[j + 1] = old[j + 1]]_vars

C9_Witness ==
  /\ op.name = "update"
  /\ res.ok
  /\ op.index = 1
  /\ Len(Stored(file)) >= 2
  /\ Stored(file)[2] = op.entry
  /\ Stored(file)[1] # op.entry

\* C10: an absent vault file is a valid empty vault: Storage::new succeeds and
\* creates no file, load returns the empty list and creates no file, and the
\* file comes into existence only by a successful write.
C10_AbsentFileIsEmptyVault ==
  [][~Exists(file)
       => /\ op'.name = "new" => (res'.ok /\ store' # <<>> /\ ~Exists(file'))
          /\ op'.name = "load" => (res' = Ok(<<>>) /\ ~Exists(file'))
          /\ Exists(file') => (op'.name \in Writes /\ res'.ok)]_vars

C10_Witness ==
  /\ op.name = "load"
  /\ ~Exists(file)
  /\ store # <<>>
  /\ res = Ok(<<>>)

\* ------------------------------------------------ the generator on its own
\* App::generate applied to every name, length text and flag combination of
\* the bounded input sets, with or without a password left by an earlier
\* successful generate.
MaxLengthText == 3
NumDraws == 2

LengthKeys == {"0", "1", "2", "8", "9", "-", "+"}
Texts(alphabet, n) == UNION {[1..k -> alphabet] : k \in 0..n}
LengthTexts == Texts(LengthKeys, MaxLengthText)
NameTexts == {<<>>, <<" ">>, <<" ", " ">>, <<"x">>, <<" ", "x">>}
LeftOver == {<<>>, <<<<"a">>>>}
Draws == 0..(NumDraws - 1)

GenInit ==
  /\ file = <<>>
  /\ store = <<>>
  /\ op = Call(<<>>, "none", "", 0, NoEntry)
  /\ res = Result(TRUE, "", <<>>)
  /\ app \in {[AppNew EXCEPT !.name_input = n, !.length_input = l,
                             !.use_letters = ul, !.use_numbers = un,
                             !.use_special = us, !.generated_password = g] :
                n \in NameTexts, l \in LengthTexts, ul \in BOOLEAN,
                un \in BOOLEAN, us \in BOOLEAN, g \in LeftOver}
  /\ phase = <<"Main">>
  /\ master_input = <<>>
  /\ new_password = <<>>
  /\ confirm_password = <<>>
  /\ viewer_state = <<>>
  /\ running = TRUE

\* app.generate()
GenerateOp(draw) ==
  /\ app' = Generate(app, draw)
  /\ op' = Call(<<>>, "generate", "", 0, NoEntry)
  /\ UNCHANGED <<file, store, res, phase, master_input, new_password,
                 confirm_password, viewer_state, running>>

GenNext == \E d \in Draws : GenerateOp(d)

SpecGen == GenInit /\ [][GenNext]_vars

\* The characters of a class, and the decimal numeral of a number.
CharsOf(class) == {class[k] : k \in 1..Len(class)}
RECURSIVE DecimalText(_)
DecimalText(n) ==
  IF n < 10 THEN <<DigitChars[n + 1]>>
  ELSE Append(DecimalText(n \div 10), DigitChars[(n % 10) + 1])

\* A text read as an integer: an optional sign, then one or more digits.
IntegerText(t) ==
  LET signed == t # <<>> /\ t[1] \in {"+", "-"}
      digits == IF signed THEN Tail(t) ELSE t
      isInt == digits # <<>> /\ \A k \in 1..Len(digits) : digits[k] \in CharsOf(DigitChars)
  IN [ok |-> isInt,
      val |-> IF ~isInt THEN 0
              ELSE IF t[1] = "-" THEN 0 - DecimalValue(digits) ELSE DecimalValue(digits)]

\* C11: for a non-blank name, a length n in 1..128 and at least one class
\* enabled, generate succeeds with a password of exactly n characters, each in
\* an enabled class (letters a-z A-Z, digits 0-9, the symbol set) and in no
\* disabled one.
C11_GeneratedPasswordShape ==
  [][(/\ op'.name = "generate"
      /\ Trim(app.name_input) # <<>>
      /\ \E n \in 1..128 : app.length_input = DecimalText(n)
      /\ (app.use_letters \/ app.use_numbers \/ app.use_special))
       => /\ app'.error = <<>>
          /\ Len(app'.generated_password) = 1
          /\ LET pw == app'.generated_password[1]
             IN /\ app.length_input = DecimalText(Len(pw))
                /\ \A k \in 1..Len(pw) :
                     /\ \/ app.use_letters /\ pw[k] \in CharsOf(LowerChars \o UpperChars)
                        \/ app.use_numbers /\ pw[k] \in CharsOf(DigitChars)
                        \/ app.use_special /\ pw[k] \in CharsOf(SpecialChars)
                     /\ ~app.use_letters => pw[k] \notin CharsOf(LowerChars \o UpperChars)
                     /\ ~app.use_numbers => pw[k] \notin CharsOf(DigitChars)
                     /\ ~app.use_special => pw[k] \notin CharsOf(SpecialChars)]_vars

C11_Witness ==
  /\ op.name = "generate"
  /\ app.length_input = <<"1", "2">>
  /\ ~app.use_letters /\ app.use_numbers /\ ~app.use_special
  /\ app.generated_password # <<>>
  /\ Len(app.generated_password[1]) = 12
  /\ \A k \in 1..12 : app.generated_password[1][k] \in CharsOf(DigitChars)

\* C12 as claimed: with a non-blank name, a length text that is not an
\* integer fails with 'Invalid length', every integer outside 1..128 (0,
\* negative, above 128) fails with 'Length must be 1-128', and every integer
\* in 1..128 passes the length check.
C12_LengthClassifiedAsInteger ==
  [][(op'.name = "generate" /\ Trim(app.name_input) # <<>>)
       => LET t == IntegerText(app.length_input)
          IN /\ ~t.ok => app'.error = <<ErrInvalidLength>>
             /\ (t.ok /\ (t.val < 1 \/ t.val > 128)) => app'.error = <<ErrRange>>
             /\ (t.ok /\ t.val >= 1 /\ t.val <= 128)
                  => app'.error \notin {<<ErrInvalidLength>>, <<ErrRange>>}]_vars

\* C12 amended: a length text that is not an unsigned integer (not an integer
\* at all, or written with a leading minus sign) fails with 'Invalid length';
\* 0 and every unsigned integer above 128 fail with 'Length must be 1-128';
\* every integer in 1..128 passes the length check.
C12_LengthClassifiedAsUnsigned ==
  [][(op'.name = "generate" /\ Trim(app.name_input) # <<>>)
       => LET t == IntegerText(app.length_input)
              unsigned == t.ok /\ app.length_input[1] # "-"
          IN /\ ~unsigned => app'.error = <<ErrInvalidLength>>
             /\ (unsigned /\ (t.val < 1 \/ t.val > 128)) => app'.error = <<ErrRange>>
             /\ (unsigned /\ t.val >= 1 /\ t.val <= 128)
                  => app'.error \notin {<<ErrInvalidLength>>, <<ErrRange>>}]_vars

C12_Witness ==
  /\ op.name = "generate"
  /\ app.length_input = <<"-", "1">>
  /\ Trim(app.name_input) # <<>>
  /\ app.error = <<ErrInvalidLength>>

\* C14: generate fails with the name-required error whenever the trimmed
\* name is empty, whatever the length text and flags; the length check comes
\* before the character-class check; and every failed generate leaves no
\* generated password, also when an earlier generate had left one.
C14_NameCheckedFirstAndFailureClears ==
  [][op'.name = "generate"
       => LET t == IntegerText(app.length_input)
              validLength == t.ok /\ app.length_input[1] # "-"
                               /\ t.val >= 1 /\ t.val <= 128
          IN /\ Trim(app.name_input) = <<>> => app'.error = <<ErrName>>
             /\ (Trim(app.name_input) # <<>> /\ ~validLength)
                  => app'.error \in {<<ErrInvalidLength>>, <<ErrRange>>}
             /\ app'.error # <<>> => app'.generated_password = <<>>
             /\ app'.error = <<>> => app'.generated_password # <<>>]_vars

C14_Witness ==
  /\ op.name = "generate"
  /\ app.name_input = <<" ", " ">>
  /\ app.length_input = <<"-">>
  /\ ~app.use_letters /\ ~app.use_numbers /\ ~app.use_special
  /\ app.error = <<ErrName>>
  /\ app.generated_password = <<>>

\* ------------------------------------------------------ the session (run)
\* fn run of main.rs: one action per arm of its match on the phase and the
\* key.  The keys pressed come from small alphabets and a text stops growing
\* at its bound.  Passphrases are typed with one character, so two of them
\* differ in length.
MaxPassText == 2
MaxNameText == 1

PassChars == {"h"}
MainChars == {"g"}
SessionDraws == {0}

NoCall == Call(<<>>, "none", "", 0, NoEntry)
NoResult == Result(TRUE, "", <<>>)

\* String::pop and String::push
Pop(t) == IF t = <<>> THEN t ELSE SubSeq(t, 1, Len(t) - 1)
Push(t, c) == Append(t, c)

\* format!("{prefix}{e}") for the prefixes and errors that meet in run
Format(prefix, e) ==
  CASE prefix = "Failed to load: " /\ e = ErrDecrypt ->
         "Failed to load: Decryption failed - wrong master password?"
    [] prefix = "Save failed: " /\ e = ErrWrite ->
         "Save failed: Failed to write file"
    [] prefix = "Failed: " /\ e = ErrDecrypt ->
         "Failed: Decryption failed - wrong master password?"
    [] prefix = "Failed: " /\ e = ErrWrite ->
         "Failed: Failed to write file"
    [] prefix = "x " /\ e = ErrDecrypt ->
         "x Decryption failed - wrong master password?"
    [] prefix = "x " /\ e = ErrIndex ->
         "x Invalid index"
    [] prefix = "x " /\ e = ErrWrite ->
         "x Failed to write file"

\* Messages of main.rs (the check mark and the cross are left out)
MsgSaved == "Saved to ~/.passgen_vault.enc"
MsgChanged == "Master password changed!"
ErrEmptyPassword == "Password cannot be empty"
ErrMismatch == "Passwords don't match"

\* An arm that calls no storage function
Quiet == op' = NoCall /\ res' = NoResult /\ UNCHANGED <<file, store>>

\* -- Phase::MasterPassword
MasterPasswordEsc ==
  /\ running /\ phase = <<"MasterPassword">>
  /\ running' = FALSE
  /\ Quiet
  /\ UNCHANGED <<app, phase, master_input, new_password, confirm_password,
                 viewer_state>>

MasterPasswordEnterAcceptsEmpty(freshSalt, readOk) ==
  /\ running /\ phase = <<"MasterPassword">>
  /\ LET r == StorageNew(master_input, file, freshSalt, readOk)
     IN /\ op' = Call(<<>>, "new", master_input, 0, NoEntry)
        /\ res' = Result(r.ok, r.err, <<>>)
        /\ master_input' = <<>>
        /\ UNCHANGED file
        /\ IF r.ok
           THEN /\ store' = r.store
                /\ phase' = <<"Main">>
                /\ UNCHANGED app
           ELSE /\ app' = [app EXCEPT !.error = <<r.err>>]
                /\ UNCHANGED <<store, phase>>
  /\ UNCHANGED <<new_password, confirm_password, viewer_state, running>>
MasterPasswordEnter(freshSalt, readOk) ==
  /\ running /\ phase = <<"MasterPassword">>
  /\ IF master_input = <<>>
     THEN /\ Quiet
          /\ UNCHANGED <<app, phase, master_input>>
     ELSE LET r == StorageNew(master_input, file, freshSalt, readOk)
          IN /\ op' = Call(<<>>, "new", master_input, 0, NoEntry)
             /\ res' = Result(r.ok, r.err, <<>>)
             /\ master_input' = <<>>
             /\ UNCHANGED file
             /\ IF r.ok
                THEN /\ store' = r.store
                     /\ phase' = <<"Main">>
                     /\ UNCHANGED app
                ELSE /\ app' = [app EXCEPT !.error = <<r.err>>]
                     /\ UNCHANGED <<store, phase>>
  /\ UNCHANGED <<new_password, confirm_password, viewer_state, running>>

MasterPasswordBackspace ==
  /\ running /\ phase = <<"MasterPassword">>
  /\ master_input' = Pop(master_input)
  /\ Quiet
  /\ UNCHANGED <<app, phase, new_password, confirm_password, viewer_state,
                 running>>

MasterPasswordChar(c) ==
  /\ running /\ phase = <<"MasterPassword">>
  /\ Len(master_input) < MaxPassText
  /\ master_input' = Push(master_input, c)
  /\ Quiet
  /\ UNCHANGED <<app, phase, new_password, confirm_password, viewer_state,
                 running>>

\* -- Phase::Main
\* Char('q') and Esc
MainQuit ==
  /\ running /\ phase = <<"Main">>
  /\ running' = FALSE
  /\ Quiet
  /\ UNCHANGED <<app, phase, master_input, new_password, confirm_password,
                 viewer_state>>

\* Char('c')
MainChangePassword ==
  /\ running /\ phase = <<"Main">>
  /\ phase' = <<"ChangeMasterPassword", "EnterOld">>
  /\ master_input' = <<>>
  /\ new_password' = <<>>
  /\ confirm_password' = <<>>
  /\ app' = [app EXCEPT !.error = <<>>, !.status_message = <<>>]
  /\ Quiet
  /\ UNCHANGED <<viewer_state, running>>

\* ViewerState of main.rs
ViewerState(entries, selected, revealed, status_message, edit_buffer) ==
  [entries |-> entries, selected |-> selected, revealed |-> revealed,
   status_message |-> status_message, edit_buffer |-> edit_buffer]

\* Char('v')
MainViewOpensOnFailure ==
  /\ running /\ phase = <<"Main">>
  /\ IF store # <<>>
     THEN LET r == Load(store[1], file)
          IN /\ op' = Call(store, "load", "", 0, NoEntry)
             /\ res' = Result(r.ok, r.err, r.entries)
             /\ UNCHANGED <<file, store>>
             /\ viewer_state' = <<ViewerState(r.entries, 0, {}, <<>>, <<>>)>>
             /\ phase' = <<"ViewPasswords", "Browse">>
             /\ app' = [app EXCEPT !.error = <<>>]
     ELSE /\ Quiet
          /\ UNCHANGED <<app, phase, viewer_state>>
  /\ UNCHANGED <<master_input, new_password, confirm_password, running>>
MainView ==
  /\ running /\ phase = <<"Main">>
  /\ IF store # <<>>
     THEN LET r == Load(store[1], file)
          IN /\ op' = Call(store, "load", "", 0, NoEntry)
             /\ res' = Result(r.ok, r.err, r.entries)
             /\ UNCHANGED <<file, store>>
             /\ IF r.ok
                THEN /\ viewer_state' = <<ViewerState(r.entries, 0, {}, <<>>, <<>>)>>
                     /\ phase' = <<"ViewPasswords", "Browse">>
                     /\ app' = [app EXCEPT !.error = <<>>]
                ELSE /\ app' = [app EXCEPT
                                  !.error = <<Format("Failed to load: ", r.err)>>]
                     /\ UNCHANGED <<viewer_state, phase>>
     ELSE /\ Quiet
          /\ UNCHANGED <<app, phase, viewer_state>>
  /\ UNCHANGED <<master_input, new_password, confirm_password, running>>

\* Tab and Down: app.next_field()
MainNextField ==
  /\ running /\ phase = <<"Main">>
  /\ app' = [app EXCEPT !.active_field = InputFieldNext(app.active_field)]
  /\ Quiet
  /\ UNCHANGED <<phase, master_input, new_password, confirm_password,
                 viewer_state, running>>

\* BackTab and Up: app.prev_field()
MainPrevField ==
  /\ running /\ phase = <<"Main">>
  /\ app' = [app EXCEPT !.active_field = InputFieldPrev(app.active_field)]
  /\ Quiet
  /\ UNCHANGED <<phase, master_input, new_password, confirm_password,
                 viewer_state, running>>

\* Enter: app.generate(), then store.save(entry) when a password came out.
\* A save that would make the list longer than MaxEntries is not taken.
MainEnterSavesOnFailure(draw, nonce, freshSalt, writeOk) ==
  /\ running /\ phase = <<"Main">>
  /\ LET a == Generate(app, draw)
         e == [name |-> a.name_input,
               password |-> IF a.generated_password = <<>> THEN <<>>
                            ELSE a.generated_password[1],
               created_at |-> ChronoTimestamp]
         r == Save(store[1], file, e, nonce, freshSalt, writeOk)
     IN /\ store # <<>>
        /\ Len(Load(store[1], file).entries) < MaxEntries
        /\ file' = r.file
        /\ op' = Call(store, "save", "", 0, e)
        /\ res' = Result(r.ok, r.err, <<>>)
        /\ app' = IF r.ok
                  THEN [a EXCEPT !.status_message = <<MsgSaved>>]
                  ELSE [a EXCEPT !.error = <<Format("Save failed: ", r.err)>>]
        /\ UNCHANGED store
  /\ UNCHANGED <<phase, master_input, new_password, confirm_password,
                 viewer_state, running>>
MainEnter(draw, nonce, freshSalt, writeOk) ==
  /\ running /\ phase = <<"Main">>
  /\ LET a == Generate(app, draw)
         e == GetEntry(a)
     IN IF a.generated_password # <<>> /\ store # <<>> /\ e # <<>>
        THEN LET r == Save(store[1], file, e[1], nonce, freshSalt, writeOk)
             IN /\ Len(Load(store[1], file).entries) < MaxEntries
                /\ file' = r.file
                /\ op' = Call(store, "save", "", 0, e[1])
                /\ res' = Result(r.ok, r.err, <<>>)
                /\ app' = IF r.ok
                          THEN [a EXCEPT !.status_message = <<MsgSaved>>]
                          ELSE [a EXCEPT !.error = <<Format("Save failed: ", r.err)>>]
                /\ UNCHANGED store
        ELSE /\ app' = a
             /\ Quiet
  /\ UNCHANGED <<phase, master_input, new_password, confirm_password,
                 viewer_state, running>>

\* App::toggle_current
ToggleCurrent(a, draw) ==
  CASE a.active_field = "ToggleSpecial" -> [a EXCEPT !.use_special = ~a.use_special]
    [] a.active_field = "ToggleLetters" -> [a EXCEPT !.use_letters = ~a.use_letters]
    [] a.active_field = "ToggleNumbers" -> [a EXCEPT !.use_numbers = ~a.use_numbers]
    [] a.active_field = "Generate" -> Generate(a, draw)
    [] OTHER -> a

\* Char(' '): app.toggle_current()
MainSpace(draw) ==
  /\ running /\ phase = <<"Main">>
  /\ app' = ToggleCurrent(app, draw)
  /\ Quiet
  /\ UNCHANGED <<phase, master_input, new_password, confirm_password,
                 viewer_state, running>>

\* App::current_text_input, as the name of the field it borrows
CurrentTextInput(a) ==
  CASE a.active_field = "Name" -> <<"name_input">>
    [] a.active_field = "Length" -> <<"length_input">>
    [] OTHER -> <<>>

MainBackspace ==
  /\ running /\ phase = <<"Main">>
  /\ app' = CASE CurrentTextInput(app) = <<"name_input">> ->
                   [app EXCEPT !.name_input = Pop(app.name_input)]
              [] CurrentTextInput(app) = <<"length_input">> ->
                   [app EXCEPT !.length_input = Pop(app.length_input)]
              [] OTHER -> app
  /\ Quiet
  /\ UNCHANGED <<phase, master_input, new_password, confirm_password,
                 viewer_state, running>>

\* Char(c) for a c that no earlier arm of the match takes
MainChar(c) ==
  /\ running /\ phase = <<"Main">>
  /\ c \notin {"q", "c", "v", " "}
  /\ CurrentTextInput(app) = <<"name_input">> => Len(app.name_input) < MaxNameText
  /\ CurrentTextInput(app) = <<"length_input">> => Len(app.length_input) < MaxLengthText
  /\ app' = CASE CurrentTextInput(app) = <<"name_input">> ->
                   [app EXCEPT !.name_input = Push(app.name_input, c)]
              [] CurrentTextInput(app) = <<"length_input">> ->
                   [app EXCEPT !.length_input = Push(app.length_input, c)]
              [] OTHER -> app
  /\ Quiet
  /\ UNCHANGED <<phase, master_input, new_password, confirm_password,
                 viewer_state, running>>

\* KeyCode::Char(c) in Phase::Main: the arm the match takes for the character
PressCharInMain(c) ==
  CASE c = "q" -> MainQuit
    [] c = "c" -> MainChangePassword
    [] c = "v" -> MainView
    [] c = " " -> \E d \in SessionDraws : MainSpace(d)
    [] OTHER -> MainChar(c)

\* -- Phase::ChangeMasterPassword
ChangeEsc ==
  /\ running /\ phase[1] = "ChangeMasterPassword"
  /\ phase' = <<"Main">>
  /\ master_input' = <<>>
  /\ new_password' = <<>>
  /\ confirm_password' = <<>>
  /\ app' = [app EXCEPT !.error = <<>>]
  /\ Quiet
  /\ UNCHANGED <<viewer_state, running>>

\* Enter in ChangeStep::EnterOld
ChangeEnterOld(freshSalt, readOk) ==
  /\ running /\ phase = <<"ChangeMasterPassword", "EnterOld">>
  /\ LET r == StorageNew(master_input, file, freshSalt, readOk)
     IN /\ op' = Call(<<>>, "new", master_input, 0, NoEntry)
        /\ res' = Result(r.ok, r.err, <<>>)
        /\ UNCHANGED file
        /\ IF r.ok
           THEN /\ store' = r.store
                /\ phase' = <<"ChangeMasterPassword", "EnterNew">>
                /\ app' = [app EXCEPT !.error = <<>>]
                /\ UNCHANGED master_input
           ELSE /\ app' = [app EXCEPT !.error = <<r.err>>]
                /\ master_input' = <<>>
                /\ UNCHANGED <<store, phase>>
  /\ UNCHANGED <<new_password, confirm_password, viewer_state, running>>

\* Enter in ChangeStep::EnterNew
ChangeEnterNewAcceptsEmpty ==
  /\ running /\ phase = <<"ChangeMasterPassword", "EnterNew">>
  /\ phase' = <<"ChangeMasterPassword", "ConfirmNew">>
  /\ app' = [app EXCEPT !.error = <<>>]
  /\ Quiet
  /\ UNCHANGED <<master_input, new_password, confirm_password, viewer_state,
                 running>>
ChangeEnterNew ==
  /\ running /\ phase = <<"ChangeMasterPassword", "EnterNew">>
  /\ IF new_password = <<>>
     THEN /\ app' = [app EXCEPT !.error = <<ErrEmptyPassword>>]
          /\ UNCHANGED phase
     ELSE /\ phase' = <<"ChangeMasterPassword", "ConfirmNew">>
          /\ app' = [app EXCEPT !.error = <<>>]
  /\ Quiet
  /\ UNCHANGED <<master_input, new_password, confirm_password, viewer_state,
                 running>>

\* Enter in ChangeStep::ConfirmNew
ChangeConfirmNewKeepsStore(new_salt, nonce, writeOk) ==
  /\ running /\ phase = <<"ChangeMasterPassword", "ConfirmNew">>
  /\ confirm_password = new_password
  /\ store # <<>>
  /\ LET r == ChangeMasterPassword(store[1], file, new_password, new_salt,
                                   nonce, writeOk)
     IN /\ file' = r.file
        /\ op' = Call(store, "change_master_password", new_password, 0, NoEntry)
        /\ res' = Result(r.ok, r.err, <<>>)
        /\ UNCHANGED store
        /\ IF r.ok
           THEN /\ app' = [app EXCEPT !.status_message = <<MsgChanged>>,
                                      !.error = <<>>]
                /\ phase' = <<"Main">>
                /\ master_input' = <<>>
                /\ new_password' = <<>>
                /\ confirm_password' = <<>>
           ELSE /\ app' = [app EXCEPT !.error = <<Format("Failed: ", r.err)>>]
                /\ UNCHANGED <<phase, master_input, new_password,
                               confirm_password>>
  /\ UNCHANGED <<viewer_state, running>>
ChangeConfirmNewKeepsConfirm(new_salt, nonce, writeOk) ==
  /\ running /\ phase = <<"ChangeMasterPassword", "ConfirmNew">>
  /\ IF confirm_password # new_password
     THEN /\ app' = [app EXCEPT !.error = <<ErrMismatch>>]
          /\ Quiet
          /\ UNCHANGED <<phase, master_input, new_password, confirm_password>>
     ELSE IF store # <<>>
     THEN LET r == ChangeMasterPassword(store[1], file, new_password, new_salt,
                                        nonce, writeOk)
          IN /\ file' = r.file
             /\ op' = Call(store, "change_master_password", new_password, 0, NoEntry)
             /\ res' = Result(r.ok, r.err, <<>>)
             /\ IF r.ok
                THEN /\ store' = r.store
                     /\ app' = [app EXCEPT !.status_message = <<MsgChanged>>,
                                           !.error = <<>>]
                     /\ phase' = <<"Main">>
                     /\ master_input' = <<>>
                     /\ new_password' = <<>>
                     /\ confirm_password' = <<>>
                ELSE /\ app' = [app EXCEPT !.error = <<Format("Failed: ", r.err)>>]
                     /\ UNCHANGED <<store, phase, master_input, new_password,
                                    confirm_password>>
     ELSE /\ Quiet
          /\ UNCHANGED <<app, phase, master_input, new_password, confirm_password>>
  /\ UNCHANGED <<viewer_state, running>>
ChangeConfirmNew(new_salt, nonce, writeOk) ==
  /\ running /\ phase = <<"ChangeMasterPassword", "ConfirmNew">>
  /\ IF confirm_password # new_password
     THEN /\ app' = [app EXCEPT !.error = <<ErrMismatch>>]
          /\ confirm_password' = <<>>
          /\ Quiet
          /\ UNCHANGED <<phase, master_input, new_password>>
     ELSE IF store # <<>>
     THEN LET r == ChangeMasterPassword(store[1], file, new_password, new_salt,
                                        nonce, writeOk)
          IN /\ file' = r.file
             /\ op' = Call(store, "change_master_password", new_password, 0, NoEntry)
             /\ res' = Result(r.ok, r.err, <<>>)
             /\ IF r.ok
                THEN /\ store' = r.store
                     /\ app' = [app EXCEPT !.status_message = <<MsgChanged>>,
                                           !.error = <<>>]
                     /\ phase' = <<"Main">>
                     /\ master_input' = <<>>
                     /\ new_password' = <<>>
                     /\ confirm_password' = <<>>
                ELSE /\ app' = [app EXCEPT !.error = <<Format("Failed: ", r.err)>>]
                     /\ UNCHANGED <<store, phase, master_input, new_password,
                                    confirm_password>>
     ELSE /\ Quiet
          /\ UNCHANGED <<app, phase, master_input, new_password, confirm_password>>
  /\ UNCHANGED <<viewer_state, running>>

\* The text the step edits
ChangeBackspace ==
  /\ running /\ phase[1] = "ChangeMasterPassword"
  /\ master_input' = IF phase[2] = "EnterOld" THEN Pop(master_input) ELSE master_input
  /\ new_password' = IF phase[2] = "EnterNew" THEN Pop(new_password) ELSE new_password
  /\ confirm_password' =
       IF phase[2] = "ConfirmNew" THEN Pop(confirm_password) ELSE confirm_password
  /\ Quiet
  /\ UNCHANGED <<app, phase, viewer_state, running>>

ChangeChar(c) ==
  /\ running /\ phase[1] = "ChangeMasterPassword"
  /\ phase[2] = "EnterOld" => Len(master_input) < MaxPassText
  /\ phase[2] = "EnterNew" => Len(new_password) < MaxPassText
  /\ phase[2] = "ConfirmNew" => Len(confirm_password) < MaxPassText
  /\ master_input' = IF phase[2] = "EnterOld" THEN Push(master_input, c) ELSE master_input
  /\ new_password' = IF phase[2] = "EnterNew" THEN Push(new_password, c) ELSE new_password
  /\ confirm_password' =
       IF phase[2] = "ConfirmNew" THEN Push(confirm_password, c) ELSE confirm_password
  /\ Quiet
  /\ UNCHANGED <<app, phase, viewer_state, running>>

\* -- Phase::ViewPasswords
MaxEditText == 2
EditChars == {"m"}

MsgCopied == "Copied to clipboard!"
MsgCopyFailed == "Failed to copy"
MsgNoClipboard == "Clipboard unavailable"
MsgDeleted == "Deleted!"
MsgNameUpdated == "Name updated!"
MsgPasswordUpdated == "Password updated!"
ClipboardOutcomes == {MsgCopied, MsgCopyFailed, MsgNoClipboard}

\* An index into a Vec is in range; an access out of range panics and run
\* is left.
InRange(entries, index) == index < Len(entries)
Panic ==
  /\ running' = FALSE
  /\ op' = Call(<<>>, "panic", "", 0, NoEntry)
  /\ res' = NoResult
  /\ UNCHANGED <<file, store, app, phase, master_input, new_password,
                 confirm_password, viewer_state>>

\* The arms of the viewer leave these alone
ViewerFrame == UNCHANGED <<app, master_input, new_password, confirm_password, running>>

\* Esc and Char('q') in ViewMode::Browse
BrowseQuitKeepsState ==
  /\ running /\ phase = <<"ViewPasswords", "Browse">> /\ viewer_state # <<>>
  /\ phase' = <<"Main">>
  /\ UNCHANGED viewer_state
  /\ Quiet
  /\ ViewerFrame
BrowseQuit ==
  /\ running /\ phase = <<"ViewPasswords", "Browse">> /\ viewer_state # <<>>
  /\ phase' = <<"Main">>
  /\ viewer_state' = <<>>
  /\ Quiet
  /\ ViewerFrame

\* Up and Char('k')
BrowseUp ==
  /\ running /\ phase = <<"ViewPasswords", "Browse">> /\ viewer_state # <<>>
  /\ LET state == viewer_state[1]
     IN viewer_state' =
          <<[state EXCEPT
               !.selected = IF state.selected > 0 THEN state.selected - 1
                            ELSE state.selected,
               !.status_message = <<>>]>>
  /\ Quiet
  /\ UNCHANGED phase
  /\ ViewerFrame

\* Down and Char('j')
BrowseDown ==
  /\ running /\ phase = <<"ViewPasswords", "Browse">> /\ viewer_state # <<>>
  /\ LET state == viewer_state[1]
     IN viewer_state' =
          <<[state EXCEPT
               !.selected = IF state.selected + 1 < Len(state.entries)
                            THEN state.selected + 1 ELSE state.selected,
               !.status_message = <<>>]>>
  /\ Quiet
  /\ UNCHANGED phase
  /\ ViewerFrame

\* What the three reveal keys make of the viewer state: the selected index
\* is removed from the set if it is in it and inserted if not; every index
\* of the snapshot is inserted; the set is cleared.
ToggleReveal(state) ==
  [state EXCEPT
     !.revealed = IF state.selected \in state.revealed
                  THEN state.revealed \ {state.selected}
                  ELSE state.revealed \cup {state.selected}]
RevealAll(state) ==
  [state EXCEPT
     !.revealed = state.revealed \cup (0..(Len(state.entries) - 1))]
HideAll(state) == [state EXCEPT !.revealed = {}]

\* Enter and Char(' '): toggle the reveal of the selected index
BrowseToggleReveal ==
  /\ running /\ phase = <<"ViewPasswords", "Browse">> /\ viewer_state # <<>>
  /\ viewer_state' = <<ToggleReveal(viewer_state[1])>>
  /\ Quiet
  /\ UNCHANGED phase
  /\ ViewerFrame

\* Char('r')
BrowseRevealAll ==
  /\ running /\ phase = <<"ViewPasswords", "Browse">> /\ viewer_state # <<>>
  /\ viewer_state' = <<RevealAll(viewer_state[1])>>
  /\ Quiet
  /\ UNCHANGED phase
  /\ ViewerFrame

\* Char('H')
BrowseHideAll ==
  /\ running /\ phase = <<"ViewPasswords", "Browse">> /\ viewer_state # <<>>
  /\ viewer_state' = <<HideAll(viewer_state[1])>>
  /\ Quiet
  /\ UNCHANGED phase
  /\ ViewerFrame

\* Char('y'): the clipboard answers with one of its three outcomes
BrowseCopy(outcome) ==
  /\ running /\ phase = <<"ViewPasswords", "Browse">> /\ viewer_state # <<>>
  /\ LET state == viewer_state[1]
     IN IF state.entries # <<>>
        THEN IF outcome # MsgNoClipboard /\ ~InRange(state.entries, state.selected)
             THEN Panic
             ELSE /\ viewer_state' = <<[state EXCEPT !.status_message = <<outcome>>]>>
                  /\ Quiet
                  /\ UNCHANGED phase
                  /\ ViewerFrame
        ELSE /\ Quiet
             /\ UNCHANGED <<phase, viewer_state>>
             /\ ViewerFrame

\* Char('d')
BrowseDeleteUnguarded ==
  /\ running /\ phase = <<"ViewPasswords", "Browse">> /\ viewer_state # <<>>
  /\ phase' = <<"ViewPasswords", "ConfirmDelete">>
  /\ Quiet
  /\ UNCHANGED viewer_state
  /\ ViewerFrame
BrowseDelete ==
  /\ running /\ phase = <<"ViewPasswords", "Browse">> /\ viewer_state # <<>>
  /\ phase' = IF viewer_state[1].entries # <<>>
              THEN <<"ViewPasswords", "ConfirmDelete">> ELSE phase
  /\ Quiet
  /\ UNCHANGED viewer_state
  /\ ViewerFrame

\* Char('e')
BrowseEditName ==
  /\ running /\ phase = <<"ViewPasswords", "Browse">> /\ viewer_state # <<>>
  /\ LET state == viewer_state[1]
     IN IF state.entries # <<>>
        THEN IF ~InRange(state.entries, state.selected)
             THEN Panic
             ELSE /\ viewer_state' =
                       <<[state EXCEPT
                            !.edit_buffer = state.entries[state.selected + 1].name]>>
                  /\ phase' = <<"ViewPasswords", "EditName">>
                  /\ Quiet
                  /\ ViewerFrame
        ELSE /\ Quiet
             /\ UNCHANGED <<phase, viewer_state>>
             /\ ViewerFrame

\* Char('p')
BrowseEditPassword ==
  /\ running /\ phase = <<"ViewPasswords", "Browse">> /\ viewer_state # <<>>
  /\ LET state == viewer_state[1]
     IN IF state.entries # <<>>
        THEN IF ~InRange(state.entries, state.selected)
             THEN Panic
             ELSE /\ viewer_state' =
                       <<[state EXCEPT
                            !.edit_buffer = state.entries[state.selected + 1].password,
                            !.revealed = state.revealed \cup {state.selected}]>>
                  /\ phase' = <<"ViewPasswords", "EditPassword">>
                  /\ Quiet
                  /\ ViewerFrame
        ELSE /\ Quiet
             /\ UNCHANGED <<phase, viewer_state>>
             /\ ViewerFrame

\* Char('y') and Enter in ViewMode::ConfirmDelete
ConfirmDeleteYesNoClamp(nonce, freshSalt, writeOk) ==
  /\ running /\ phase = <<"ViewPasswords", "ConfirmDelete">> /\ viewer_state # <<>>
  /\ store # <<>>
  /\ LET state == viewer_state[1]
         r == Delete(store[1], file, state.selected, nonce, freshSalt, writeOk)
     IN /\ file' = r.file
        /\ op' = Call(store, "delete", "", state.selected, NoEntry)
        /\ res' = Result(r.ok, r.err, <<>>)
        /\ viewer_state' =
             IF r.ok
             THEN <<[state EXCEPT
                       !.entries = Remove(state.entries, state.selected),
                       !.revealed = {},
                       !.status_message = <<MsgDeleted>>]>>
             ELSE <<[state EXCEPT !.status_message = <<Format("x ", r.err)>>]>>
  /\ phase' = <<"ViewPasswords", "Browse">>
  /\ UNCHANGED <<store, app, master_input, new_password, confirm_password, running>>
ConfirmDeleteYesKeepsRevealed(nonce, freshSalt, writeOk) ==
  /\ running /\ phase = <<"ViewPasswords", "ConfirmDelete">> /\ viewer_state # <<>>
  /\ store # <<>>
  /\ LET state == viewer_state[1]
         r == Delete(store[1], file, state.selected, nonce, freshSalt, writeOk)
         entries == Remove(state.entries, state.selected)
     IN /\ file' = r.file
        /\ op' = Call(store, "delete", "", state.selected, NoEntry)
        /\ res' = Result(r.ok, r.err, <<>>)
        /\ viewer_state' =
             IF r.ok
             THEN <<[state EXCEPT
                       !.entries = entries,
                       !.selected = IF state.selected >= Len(entries)
                                       /\ state.selected > 0
                                    THEN state.selected - 1 ELSE state.selected,
                       !.status_message = <<MsgDeleted>>]>>
             ELSE <<[state EXCEPT !.status_message = <<Format("x ", r.err)>>]>>
  /\ phase' = <<"ViewPasswords", "Browse">>
  /\ UNCHANGED <<store, app, master_input, new_password, confirm_password, running>>
ConfirmDeleteYes(nonce, freshSalt, writeOk) ==
  /\ running /\ phase = <<"ViewPasswords", "ConfirmDelete">> /\ viewer_state # <<>>
  /\ UNCHANGED <<app, master_input, new_password, confirm_password>>
  /\ LET state == viewer_state[1]
     IN IF store # <<>>
        THEN LET r == Delete(store[1], file, state.selected, nonce, freshSalt, writeOk)
                 entries == Remove(state.entries, state.selected)
             IN /\ file' = r.file
                /\ UNCHANGED store
                /\ IF r.ok /\ ~InRange(state.entries, state.selected)
                   THEN /\ running' = FALSE
                        /\ op' = Call(<<>>, "panic", "", 0, NoEntry)
                        /\ res' = NoResult
                        /\ UNCHANGED <<phase, viewer_state>>
                   ELSE /\ op' = Call(store, "delete", "", state.selected, NoEntry)
                        /\ res' = Result(r.ok, r.err, <<>>)
                        /\ viewer_state' =
                             IF r.ok
                             THEN <<[state EXCEPT
                                       !.entries = entries,
                                       !.selected =
                                          IF state.selected >= Len(entries)
                                             /\ state.selected > 0
                                          THEN state.selected - 1
                                          ELSE state.selected,
                                       !.revealed = {},
                                       !.status_message = <<MsgDeleted>>]>>
                             ELSE <<[state EXCEPT
                                       !.status_message = <<Format("x ", r.err)>>]>>
                        /\ phase' = <<"ViewPasswords", "Browse">>
                        /\ UNCHANGED running
        ELSE /\ Quiet
             /\ phase' = <<"ViewPasswords", "Browse">>
             /\ UNCHANGED <<viewer_state, running>>

\* Char('n') and Esc in ViewMode::ConfirmDelete
ConfirmDeleteNoClearsRevealed ==
  /\ running /\ phase = <<"ViewPasswords", "ConfirmDelete">> /\ viewer_state # <<>>
  /\ phase' = <<"ViewPasswords", "Browse">>
  /\ viewer_state' = <<[viewer_state[1] EXCEPT !.status_message = <<>>,
                                               !.revealed = {}]>>
  /\ Quiet
  /\ ViewerFrame
ConfirmDeleteNo ==
  /\ running /\ phase = <<"ViewPasswords", "ConfirmDelete">> /\ viewer_state # <<>>
  /\ phase' = <<"ViewPasswords", "Browse">>
  /\ viewer_state' = <<[viewer_state[1] EXCEPT !.status_message = <<>>]>>
  /\ Quiet
  /\ ViewerFrame

\* Esc in ViewMode::EditName and ViewMode::EditPassword
EditEsc ==
  /\ running /\ phase[1] = "ViewPasswords" /\ viewer_state # <<>>
  /\ phase[2] \in {"EditName", "EditPassword"}
  /\ phase' = <<"ViewPasswords", "Browse">>
  /\ viewer_state' = <<[viewer_state[1] EXCEPT !.edit_buffer = <<>>,
                                               !.status_message = <<>>]>>
  /\ Quiet
  /\ ViewerFrame

\* The update both edit modes make on Enter: entry is the selected entry
\* with the buffer in one field.
EditCommitAlsoOnFailure(entry, updated, nonce, freshSalt, writeOk) ==
  LET state == viewer_state[1]
      r == Update(store[1], file, state.selected, entry, nonce, freshSalt, writeOk)
  IN /\ file' = r.file
     /\ op' = Call(store, "update", "", state.selected, entry)
     /\ res' = Result(r.ok, r.err, <<>>)
     /\ UNCHANGED store
     /\ viewer_state' =
          <<[state EXCEPT !.entries[state.selected + 1] = entry,
                          !.status_message = <<updated>>,
                          !.edit_buffer = <<>>]>>
     /\ phase' = <<"ViewPasswords", "Browse">>
     /\ ViewerFrame
EditCommitKeepsBuffer(entry, updated, nonce, freshSalt, writeOk) ==
  LET state == viewer_state[1]
      r == Update(store[1], file, state.selected, entry, nonce, freshSalt, writeOk)
  IN /\ file' = r.file
     /\ op' = Call(store, "update", "", state.selected, entry)
     /\ res' = Result(r.ok, r.err, <<>>)
     /\ UNCHANGED store
     /\ viewer_state' =
          IF r.ok
          THEN <<[state EXCEPT !.entries[state.selected + 1] = entry,
                               !.status_message = <<updated>>]>>
          ELSE <<[state EXCEPT !.status_message = <<Format("x ", r.err)>>]>>
     /\ phase' = <<"ViewPasswords", "Browse">>
     /\ ViewerFrame
EditCommit(entry, updated, nonce, freshSalt, writeOk) ==
  LET state == viewer_state[1]
      r == Update(store[1], file, state.selected, entry, nonce, freshSalt, writeOk)
  IN /\ file' = r.file
     /\ op' = Call(store, "update", "", state.selected, entry)
     /\ res' = Result(r.ok, r.err, <<>>)
     /\ UNCHANGED store
     /\ viewer_state' =
          IF r.ok
          THEN <<[state EXCEPT !.entries[state.selected + 1] = entry,
                               !.status_message = <<updated>>,
                               !.edit_buffer = <<>>]>>
          ELSE <<[state EXCEPT !.status_message = <<Format("x ", r.err)>>,
                               !.edit_buffer = <<>>]>>
     /\ phase' = <<"ViewPasswords", "Browse">>
     /\ ViewerFrame

\* Enter in ViewMode::EditName
EditNameEnterNoTrim(nonce, freshSalt, writeOk) ==
  /\ running /\ phase = <<"ViewPasswords", "EditName">> /\ viewer_state # <<>>
  /\ LET state == viewer_state[1]
     IN IF state.edit_buffer # <<>> /\ store # <<>>
        THEN IF ~InRange(state.entries, state.selected)
             THEN Panic
             ELSE EditCommit([state.entries[state.selected + 1] EXCEPT
                                !.name = state.edit_buffer],
                             MsgNameUpdated, nonce, freshSalt, writeOk)
        ELSE /\ viewer_state' = <<[state EXCEPT !.edit_buffer = <<>>]>>
             /\ phase' = <<"ViewPasswords", "Browse">>
             /\ Quiet
             /\ ViewerFrame
EditNameEnter(nonce, freshSalt, writeOk) ==
  /\ running /\ phase = <<"ViewPasswords", "EditName">> /\ viewer_state # <<>>
  /\ LET state == viewer_state[1]
     IN IF Trim(state.edit_buffer) # <<>> /\ store # <<>>
        THEN IF ~InRange(state.entries, state.selected)
             THEN Panic
             ELSE EditCommit([state.entries[state.selected + 1] EXCEPT
                                !.name = state.edit_buffer],
                             MsgNameUpdated, nonce, freshSalt, writeOk)
        ELSE /\ viewer_state' = <<[state EXCEPT !.edit_buffer = <<>>]>>
             /\ phase' = <<"ViewPasswords", "Browse">>
             /\ Quiet
             /\ ViewerFrame

\* Enter in ViewMode::EditPassword
EditPasswordEnter(nonce, freshSalt, writeOk) ==
  /\ running /\ phase = <<"ViewPasswords", "EditPassword">> /\ viewer_state # <<>>
  /\ LET state == viewer_state[1]
     IN IF state.edit_buffer # <<>> /\ store # <<>>
        THEN IF ~InRange(state.entries, state.selected)
             THEN Panic
             ELSE EditCommit([state.entries[state.selected + 1] EXCEPT
                                !.password = state.edit_buffer],
                             MsgPasswordUpdated, nonce, freshSalt, writeOk)
        ELSE /\ viewer_state' = <<[state EXCEPT !.edit_buffer = <<>>]>>
             /\ phase' = <<"ViewPasswords", "Browse">>
             /\ Quiet
             /\ ViewerFrame

\* Backspace in either edit mode
EditBackspace ==
  /\ running /\ phase[1] = "ViewPasswords" /\ viewer_state # <<>>
  /\ phase[2] \in {"EditName", "EditPassword"}
  /\ viewer_state' = <<[viewer_state[1] EXCEPT
                          !.edit_buffer = Pop(viewer_state[1].edit_buffer)]>>
  /\ Quiet
  /\ UNCHANGED phase
  /\ ViewerFrame

\* Char(c) in either edit mode
EditChar(c) ==
  /\ running /\ phase[1] = "ViewPasswords" /\ viewer_state # <<>>
  /\ phase[2] \in {"EditName", "EditPassword"}
  /\ Len(viewer_state[1].edit_buffer) < MaxEditText
  /\ viewer_state' = <<[viewer_state[1] EXCEPT
                          !.edit_buffer = Push(viewer_state[1].edit_buffer, c)]>>
  /\ Quiet
  /\ UNCHANGED phase
  /\ ViewerFrame

\* run returned and the program is started again: the locals of run are
\* new, the file is what the last run left.
Run ==
  /\ ~running
  /\ app' = AppNew
  /\ phase' = <<"MasterPassword">>
  /\ master_input' = <<>>
  /\ new_password' = <<>>
  /\ confirm_password' = <<>>
  /\ viewer_state' = <<>>
  /\ running' = TRUE
  /\ store' = <<>>
  /\ op' = NoCall
  /\ res' = NoResult
  /\ UNCHANGED file

\* All arms together, with every input, are too many states to enumerate.
\* Each specification below runs part of the arms.

\* Unlocking and rotation: every arm of MasterPassword and of
\* ChangeMasterPassword, with the arms of Main that type and erase a name, save
\* an entry, open the viewer, start a rotation or leave; the program is started again
\* after it is left.  The nonce is fixed.
RotationNext ==
  \/ MasterPasswordEsc
  \/ \E s \in SaltDraws(file), r \in ReadOutcomes(file) : MasterPasswordEnter(s, r)
  \/ MasterPasswordBackspace
  \/ \E c \in PassChars : MasterPasswordChar(c)
  \/ MainQuit
  \/ MainChangePassword
  \/ MainView
  \/ \E d \in SessionDraws, s \in SaltDraws(file), w \in BOOLEAN :
       MainEnter(d, 1, s, w)
  \/ \E c \in MainChars : MainChar(c)
  \/ MainBackspace
  \/ ChangeEsc
  \/ \E s \in SaltDraws(file), r \in ReadOutcomes(file) : ChangeEnterOld(s, r)
  \/ ChangeEnterNew
  \/ \E w \in BOOLEAN :
       \E s \in NewSaltDraws(w) : ChangeConfirmNew(s, 1, w)
  \/ ChangeBackspace
  \/ \E c \in PassChars : ChangeChar(c)
  \/ BrowseQuit
  \/ Run

SpecRotation == Init /\ [][RotationNext]_vars

\* The generator form: one passphrase unlocks, then every arm of Main but
\* Backspace, the viewer and the rotation; salt and nonce are fixed.
MainNext ==
  \/ \E c \in PassChars : MasterPasswordChar(c)
  \/ \E r \in ReadOutcomes(file) : MasterPasswordEnter(1, r)
  \/ MainNextField
  \/ MainPrevField
  \/ \E d \in SessionDraws, w \in BOOLEAN : MainEnter(d, 1, 1, w)
  \/ \E d \in SessionDraws : MainSpace(d)
  \/ \E c \in MainChars : MainChar(c)

SpecMain == Init /\ [][MainNext]_vars

\* The viewer: one passphrase unlocks, entries are named, generated and
\* saved, and every arm of ViewPasswords but the typing into the edit buffer.
ViewerNext ==
  \/ \E c \in PassChars : MasterPasswordChar(c)
  \/ \E r \in ReadOutcomes(file) : MasterPasswordEnter(1, r)
  \/ \E d \in Draws, w \in BOOLEAN : MainEnter(d, 1, 1, w)
  \/ \E c \in MainChars : MainChar(c)
  \/ MainView
  \/ BrowseQuit
  \/ BrowseUp
  \/ BrowseDown
  \/ BrowseToggleReveal
  \/ BrowseRevealAll
  \/ BrowseHideAll
  \/ \E o \in ClipboardOutcomes : BrowseCopy(o)
  \/ BrowseDelete
  \/ BrowseEditName
  \/ BrowseEditPassword
  \/ \E w \in BOOLEAN : ConfirmDeleteYes(1, 1, w)
  \/ ConfirmDeleteNo
  \/ EditEsc
  \/ \E w \in BOOLEAN : EditNameEnter(1, 1, w)
  \/ \E w \in BOOLEAN : EditPasswordEnter(1, 1, w)

SpecViewer == Init /\ [][ViewerNext]_vars

\* ------------------------------------------------- properties of the session
\* Enter pressed in Main, whatever the generator and the storage draw
EnterInMain ==
  \E d \in Draws, n \in Nonces, s \in Salts, w \in BOOLEAN : MainEnter(d, n, s, w)

\* C13: when the name is not blank and the length is an integer from 1 to
\* 128 but letters, numbers and special characters are all disabled, Enter in
\* Main sets the character-class error, leaves no generated password, and
\* saves nothing: the vault file is as it was.
C13_NoClassNothingSaved ==
  [][(/\ ~app.use_letters /\ ~app.use_numbers /\ ~app.use_special
      /\ Trim(app.name_input) # <<>>
      /\ IntegerText(app.length_input).ok
      /\ IntegerText(app.length_input).val \in 1..128
      /\ EnterInMain)
       => /\ app'.error = <<ErrNoClass>>
          /\ app'.generated_password = <<>>
          /\ op'.name # "save"
          /\ file' = file]_vars

C13_Witness ==
  /\ phase = <<"Main">>
  /\ store # <<>>
  /\ Stored(file) # <<>>
  /\ Trim(app.name_input) # <<>>
  /\ app.length_input = <<"1", "6">>
  /\ ~app.use_letters /\ ~app.use_numbers /\ ~app.use_special
  /\ app.error = <<ErrNoClass>>
  /\ app.generated_password = <<>>

\* The ring of the form's fields, in the order the form shows them
Ring == <<"Name", "Length", "ToggleSpecial", "ToggleLetters", "ToggleNumbers", "Generate">>
RingIndex(f) == CHOOSE i \in 1..Len(Ring) : Ring[i] = f
RingAfter(f) == Ring[(RingIndex(f) % Len(Ring)) + 1]
RingBefore(f) == Ring[((RingIndex(f) + Len(Ring) - 2) % Len(Ring)) + 1]
RECURSIVE NextTimes(_, _)
NextTimes(f, k) == IF k = 0 THEN f ELSE NextTimes(InputFieldNext(f), k - 1)

\* C15: the fields form a ring.  next goes Name, Length, ToggleSpecial,
\* ToggleLetters, ToggleNumbers, Generate and back to Name; next applied six
\* times returns to the field it started from; prev undoes next and next
\* undoes prev.  Tab moves the active field by next and BackTab by prev.
C15_FieldRing ==
  [][LET f == app.active_field
     IN /\ InputFieldNext(f) = RingAfter(f)
        /\ NextTimes(f, 6) = f
        /\ InputFieldPrev(InputFieldNext(f)) = f
        /\ InputFieldNext(InputFieldPrev(f)) = f
        /\ MainNextField => app'.active_field = RingAfter(f)
        /\ MainPrevField => app'.active_field = RingBefore(f)]_vars

C15_Witness ==
  /\ phase = <<"Main">>
  /\ app.active_field = "ToggleLetters"
  /\ ~app.use_special

\* Enter pressed in MasterPassword
SubmitMaster == \E s \in Salts, r \in BOOLEAN : MasterPasswordEnter(s, r)

\* C16: the session starts in MasterPassword.  It leaves that phase only for
\* Main, only on an Enter with a non-empty input for which Storage::new
\* succeeds, and the store that call returned is then bound.  An Enter with
\* empty input changes nothing.  An Enter whose Storage::new fails stays in
\* MasterPassword with the error set and the input cleared.  A store is
\* bound in every state whose phase is not MasterPassword.
C16_UnlockGate ==
  /\ phase = <<"MasterPassword">>
  /\ [][/\ (phase = <<"MasterPassword">> /\ phase' # phase)
             => /\ phase' = <<"Main">>
                /\ master_input # <<>>
                /\ op'.name = "new" /\ res'.ok
                /\ \E s \in Salts :
                     store' = StorageNew(master_input, file, s, TRUE).store
                /\ store' # <<>>
        /\ (phase = <<"MasterPassword">> /\ master_input = <<>> /\ SubmitMaster)
             => UNCHANGED <<file, store, sessionVars>>
        /\ (phase = <<"MasterPassword">> /\ op'.name = "new" /\ ~res'.ok)
             => /\ phase' = <<"MasterPassword">>
                /\ app'.error # <<>>
                /\ master_input' = <<>>
                /\ UNCHANGED <<file, store>>
        /\ phase' # <<"MasterPassword">> => store' # <<>>]_vars

C16_Witness ==
  /\ phase = <<"Main">>
  /\ op.name = "new" /\ res.ok
  /\ store # <<>>
  /\ master_input = <<>>
  /\ Exists(file)

\* C17: on Enter in Main, if the generator fails the error is set, the phase
\* stays Main and the vault file is unchanged; if it succeeds and the save
\* succeeds, the vault holds what it held before followed by exactly one new
\* entry, which has the entered name and the generated password, and the
\* confirmation status is set.
C17_EnterGeneratesAndAppends ==
  [][(phase = <<"Main">> /\ EnterInMain)
       => /\ app'.generated_password = <<>>
               => /\ app'.error # <<>>
                  /\ phase' = <<"Main">>
                  /\ file' = file
          /\ (app'.generated_password # <<>> /\ op'.name = "save" /\ res'.ok)
               => /\ Stored(file') =
                       Append(Stored(file),
                              [name |-> app.name_input,
                               password |-> app'.generated_password[1],
                               created_at |-> ChronoTimestamp])
                  /\ app'.status_message = <<MsgSaved>>]_vars

\* C18: a rotation is entered only from Main and starts at EnterOld; the
\* step changes only from EnterOld to EnterNew and from EnterNew to
\* ConfirmNew, and only on Enter; change_master_password is called only in
\* ConfirmNew, through the store a successful Enter in EnterOld bound for the
\* old passphrase typed, with a non-empty new passphrase and a confirmation
\* equal to it.
C18_RotationStepsLinear ==
  [][/\ (phase[1] # "ChangeMasterPassword" /\ phase'[1] = "ChangeMasterPassword")
          => /\ phase = <<"Main">>
             /\ phase' = <<"ChangeMasterPassword", "EnterOld">>
     /\ (phase[1] = "ChangeMasterPassword" /\ phase'[1] = "ChangeMasterPassword"
           /\ phase' # phase)
          => /\ <<phase[2], phase'[2]>> \in
                  {<<"EnterOld", "EnterNew">>, <<"EnterNew", "ConfirmNew">>}
             /\ \/ \E s \in Salts, r \in BOOLEAN : ChangeEnterOld(s, r)
                \/ ChangeEnterNew
             /\ phase[2] = "EnterOld" => (op'.name = "new" /\ res'.ok)
     /\ op'.name = "change_master_password"
          => /\ phase = <<"ChangeMasterPassword", "ConfirmNew">>
             /\ new_password # <<>>
             /\ confirm_password = new_password
             /\ op'.pass = new_password
             /\ store # <<>>
             /\ op'.self = store
             /\ PassOf(store) = master_input]_vars

C18_Witness ==
  /\ op.name = "change_master_password"
  /\ op.pass # <<>>
  /\ res.ok
  /\ phase = <<"Main">>

\* C19: when Enter in ConfirmNew finds the confirmation equal to the new
\* passphrase and change_master_password succeeds, the phase is Main, the
\* session holds the store that call returned, the three passphrase inputs
\* are empty, the status message is set, and load through the new store
\* returns the entry list load returned through the old store before.
C19_RotationRebindsAndKeepsEntries ==
  [][(op'.name = "change_master_password" /\ res'.ok)
       => /\ confirm_password = new_password
          /\ phase' = <<"Main">>
          /\ store' # <<>>
          /\ PassOf(store') = new_password
          /\ master_input' = <<>>
          /\ new_password' = <<>>
          /\ confirm_password' = <<>>
          /\ app'.status_message = <<MsgChanged>>
          /\ Load(store[1], file).ok
          /\ Load(store'[1], file') = Ok(Load(store[1], file).entries)]_vars

C19_Witness ==
  /\ op.name = "change_master_password"
  /\ res.ok
  /\ phase = <<"Main">>
  /\ Stored(file) # <<>>
  /\ Load(store[1], file) = Ok(Stored(file))
  /\ app.status_message = <<MsgChanged>>
  /\ PassOf(store) # PassOf(op.self)

\* C20: in the viewer, selected is below the number of entries of the
\* snapshot when there are entries and 0 when there are none; moving up and
\* down and deleting keep it so, and no access entries[selected] made by the
\* copy, edit or delete arms is out of range.
C20_SelectionInRange ==
  /\ op.name # "panic"
  /\ phase[1] = "ViewPasswords"
       => /\ viewer_state # <<>>
          /\ IF viewer_state[1].entries = <<>>
             THEN viewer_state[1].selected = 0
             ELSE viewer_state[1].selected \in 0..(Len(viewer_state[1].entries) - 1)

C20_Witness ==
  /\ phase = <<"ViewPasswords", "Browse">>
  /\ op.name = "delete" /\ res.ok /\ op.index = 1
  /\ Len(viewer_state[1].entries) = 1
  /\ viewer_state[1].selected = 0

\* 'y' or Enter pressed in ConfirmDelete, whatever the storage draws
ConfirmYes ==
  \E n \in Nonces, s \in Salts, w \in BOOLEAN : ConfirmDeleteYes(n, s, w)

\* A list without its element at a 0-based position, and the smaller of two
\* numbers
WithoutAt(entries, i) ==
  [k \in 1..(Len(entries) - 1) |-> IF k <= i THEN entries[k] ELSE entries[k + 1]]
Min(a, b) == IF a <= b THEN a ELSE b

\* C21: confirming a delete always returns to Browse.  When delete(selected)
\* succeeds, the selected entry is gone from the snapshot, the selection is
\* min(selected, len-1) of the new list (0 when it is empty) and the reveal
\* set is empty.  When it fails, the snapshot and the selection are as they
\* were and an error status is shown.
C21_ConfirmedDelete ==
  [][(phase = <<"ViewPasswords", "ConfirmDelete">> /\ ConfirmYes)
       => LET old == viewer_state[1]
              new == viewer_state'[1]
          IN /\ phase' = <<"ViewPasswords", "Browse">>
             /\ op'.name = "delete" /\ op'.index = old.selected
             /\ res'.ok
                  => /\ new.entries = WithoutAt(old.entries, old.selected)
                     /\ new.selected = IF new.entries = <<>> THEN 0
                                       ELSE Min(old.selected, Len(new.entries) - 1)
                     /\ new.revealed = {}
             /\ ~res'.ok
                  => /\ new.entries = old.entries
                     /\ new.selected = old.selected
                     /\ new.status_message = <<Format("x ", res'.err)>>]_vars

C21_Witness ==
  /\ phase = <<"ViewPasswords", "Browse">>
  /\ op.name = "delete" /\ ~res.ok
  /\ Len(viewer_state[1].entries) = 2
  /\ viewer_state[1].selected = 1
  /\ viewer_state[1].revealed # {}
  /\ viewer_state[1].status_message = <<"x Failed to write file">>

\* ------------------------------------------------ a session on a vault kept
\* The program is started on a vault an earlier run left: two entries the
\* generator made for the name "g" with length 1, one from letters and one
\* from digits, saved by a store opened with the passphrase "h" whose salt
\* draw and the envelope's were both 1.  The session unlocks, opens the
\* viewer, moves, deletes and edits; salt and nonce are fixed.
FormFilled(letters) ==
  [AppNew EXCEPT !.name_input = <<"g">>, !.length_input = <<"1">>,
                 !.use_letters = letters]
KeptEntries ==
  <<GetEntry(Generate(FormFilled(TRUE), 0))[1],
    GetEntry(Generate(FormFilled(FALSE), 0))[1]>>
KeptVault ==
  SaveAll(Storage(DeriveKey(<<"h">>, 1)), <<>>, KeptEntries, 1, 1, TRUE).file

EditInit ==
  /\ file = KeptVault
  /\ store = <<>>
  /\ op = NoCall
  /\ res = NoResult
  /\ app = AppNew
  /\ phase = <<"MasterPassword">>
  /\ master_input = <<>>
  /\ new_password = <<>>
  /\ confirm_password = <<>>
  /\ viewer_state = <<>>
  /\ running = TRUE

EditNext ==
  \/ \E c \in PassChars : MasterPasswordChar(c)
  \/ \E r \in ReadOutcomes(file) : MasterPasswordEnter(1, r)
  \/ MainView
  \/ BrowseQuit
  \/ BrowseUp
  \/ BrowseDown
  \/ BrowseDelete
  \/ \E w \in BOOLEAN : ConfirmDeleteYes(1, 1, w)
  \/ ConfirmDeleteNo
  \/ BrowseEditName
  \/ BrowseEditPassword
  \/ EditEsc
  \/ \E w \in BOOLEAN : EditNameEnter(1, 1, w)
  \/ \E w \in BOOLEAN : EditPasswordEnter(1, 1, w)
  \/ EditBackspace
  \/ \E c \in EditChars : EditChar(c)

SpecEdit == EditInit /\ [][EditNext]_vars

\* C22: while the phase is ViewPasswords, after every key the snapshot is
\* the list load returns through the bound store; the snapshot changes only
\* in a step whose delete or update succeeded and rewrote the file, and the
\* file changes only in such a step, to a list load returns whole.
C22_SnapshotIsVault ==
  [][/\ phase'[1] = "ViewPasswords"
          => /\ viewer_state' # <<>> /\ store' # <<>>
             /\ Load(store'[1], file') = Ok(viewer_state'[1].entries)
     /\ (phase[1] = "ViewPasswords" /\ phase'[1] = "ViewPasswords")
          => /\ viewer_state'[1].entries # viewer_state[1].entries
                  => /\ op'.name \in {"delete", "update"} /\ res'.ok
                     /\ file' # file
             /\ file' # file
                  => /\ op'.name \in {"delete", "update"} /\ res'.ok
                     /\ Stored(file') = viewer_state'[1].entries]_vars

C22_Witness ==
  /\ phase = <<"ViewPasswords", "Browse">>
  /\ op.name = "update" /\ res.ok
  /\ Len(viewer_state[1].entries) = 2
  /\ viewer_state[1].entries[2].name = <<"g", "m">>
  /\ viewer_state[1].entries[1].password = <<"m">>
  /\ Load(store[1], file) = Ok(viewer_state[1].entries)

\* One list is another with at most one position changed
EditedInOnePosition(a, b) ==
  /\ Len(b) = Len(a)
  /\ \E i \in 1..Len(a) : \A k \in 1..Len(a) : k # i => b[k] = a[k]

\* C23: an entry stored in the vault file is removed only by a confirmed
\* viewer delete.  Every other key leaves the stored list equal, changed in
\* one position, or longer by one entry at the end.
C23_OnlyDeleteRemoves ==
  [][~(phase = <<"ViewPasswords", "ConfirmDelete">> /\ op'.name = "delete")
       => \/ file' = file
          \/ Stored(file') = Stored(file)
          \/ EditedInOnePosition(Stored(file), Stored(file'))
          \/ /\ Len(Stored(file')) = Len(Stored(file)) + 1
             /\ SubSeq(Stored(file'), 1, Len(Stored(file))) = Stored(file)]_vars

\* C24: when a vault file exists, the session leaves MasterPassword for Main
\* only with a store whose key decrypts that file: a passphrase that is not
\* the one the vault was sealed under never unlocks Main.
C24_WrongPassphraseStaysLocked ==
  [][(phase = <<"MasterPassword">> /\ phase' = <<"Main">> /\ Exists(file))
       => /\ Load(store'[1], file).ok
          /\ master_input = SealKey(file)[1]]_vars

\* C25: Enter in EnterOld verifies the old passphrase: with a vault file, the
\* step advances to EnterNew only when the store made from the passphrase
\* typed decrypts the file; otherwise it stays in EnterOld with an error.
C25_EnterOldVerifies ==
  [][(phase = <<"ChangeMasterPassword", "EnterOld">> /\ Exists(file)
        /\ \E s \in Salts, r \in BOOLEAN : ChangeEnterOld(s, r))
       => IF Load(StorageNew(master_input, file, 1, TRUE).store[1], file).ok
             /\ res'.ok
          THEN phase' = <<"ChangeMasterPassword", "EnterNew">>
          ELSE /\ phase' = <<"ChangeMasterPassword", "EnterOld">>
               /\ app'.error # <<>>]_vars

\* C26: the wizard keeps the session's store and the vault file until it
\* ends (every step that stays in the wizard leaves both unchanged), and Esc
\* in any step gives Main with the three passphrase inputs empty, the file
\* unchanged and the store unchanged: after a cancel the session is bound to
\* the store it had when the wizard was started.
C26_CancelRestoresStore ==
  [][phase[1] = "ChangeMasterPassword"
       => /\ phase'[1] = "ChangeMasterPassword"
               => (store' = store /\ file' = file)
          /\ ChangeEsc
               => /\ phase' = <<"Main">>
                  /\ master_input' = <<>>
                  /\ new_password' = <<>>
                  /\ confirm_password' = <<>>
                  /\ file' = file
                  /\ store' = store]_vars

\* The session that creates the vault: the program starts with no vault file,
\* is unlocked once, saves entries and runs the rotation wizard straight
\* through; it is never left, restarted or cancelled.  The nonce is fixed.
CreateNext ==
  \/ \E c \in PassChars : MasterPasswordChar(c)
  \/ \E s \in SaltDraws(file), r \in ReadOutcomes(file) : MasterPasswordEnter(s, r)
  \/ \E c \in MainChars : MainChar(c)
  \/ \E d \in SessionDraws, s \in SaltDraws(file), w \in BOOLEAN :
       MainEnter(d, 1, s, w)
  \/ MainChangePassword
  \/ \E c \in PassChars : ChangeChar(c)
  \/ \E s \in SaltDraws(file), r \in ReadOutcomes(file) : ChangeEnterOld(s, r)
  \/ ChangeEnterNew
  \/ \E w \in BOOLEAN :
       \E s \in NewSaltDraws(w) : ChangeConfirmNew(s, 1, w)

SpecCreate == Init /\ [][CreateNext]_vars

\* C27: in the session that created the vault, with at least one entry saved,
\* the old passphrase typed in EnterOld being the one the vault was created
\* with and a non-empty new passphrase confirmed identically, Enter in
\* ConfirmNew (the write succeeding) ends in Main with the store bound to the
\* new passphrase, the vault decrypting under it and every entry kept.
C27_RotationInCreatingSession ==
  [][(/\ phase = <<"ChangeMasterPassword", "ConfirmNew">>
      /\ Stored(file) # <<>>
      /\ master_input = SealKey(file)[1]
      /\ new_password # <<>>
      /\ confirm_password = new_password
      /\ \E s \in Salts : ChangeConfirmNew(s, 1, TRUE))
       => /\ phase' = <<"Main">>
          /\ res'.ok
          /\ PassOf(store') = new_password
          /\ Load(store'[1], file') = Ok(Stored(file))]_vars

\* C28: Enter in ConfirmNew with a confirmation that differs from the new
\* passphrase stays in ConfirmNew, empties the confirmation, sets the
\* mismatch error and leaves the new passphrase, the vault file and the store
\* unchanged; no storage function is called.
C28_MismatchStays ==
  [][(/\ phase = <<"ChangeMasterPassword", "ConfirmNew">>
      /\ confirm_password # new_password
      /\ \E s \in Salts, w \in BOOLEAN : ChangeConfirmNew(s, 1, w))
       => /\ phase' = <<"ChangeMasterPassword", "ConfirmNew">>
          /\ confirm_password' = <<>>
          /\ app'.error = <<ErrMismatch>>
          /\ new_password' = new_password
          /\ file' = file
          /\ store' = store
          /\ op' = NoCall]_vars

C28_Witness ==
  /\ phase = <<"ChangeMasterPassword", "ConfirmNew">>
  /\ app.error = <<ErrMismatch>>
  /\ confirm_password = <<>>
  /\ new_password = <<"h", "h">>
  /\ op = NoCall
  /\ Stored(file) # <<>>

\* C29: every generation from Main that succeeds, by Enter or by Space on the
\* Generate field, calls save in the same step: Main never holds a freshly
\* generated password for which no save was attempted.
C29_GenerateAlwaysSaves ==
  [][(/\ phase = <<"Main">>
      /\ app'.generated_password # <<>>
      /\ \/ EnterInMain
         \/ /\ app.active_field = "Generate"
            /\ \E d \in SessionDraws : MainSpace(d))
       => op'.name = "save"]_vars

\* The printable characters pressed in Main
MainKeys == MainChars \cup {"q", "c", "v", " "}

ActiveText(a, input) ==
  IF input = <<"name_input">> THEN a.name_input ELSE a.length_input

\* C30: in Main with the active field Name or Length, a printable character
\* key appends the character to the active text field and leaves the session
\* running in Main.
C30_PrintableAppends ==
  [][\A c \in MainKeys :
       (/\ phase = <<"Main">>
        /\ CurrentTextInput(app) # <<>>
        /\ PressCharInMain(c))
         => /\ phase' = <<"Main">>
            /\ running'
            /\ ActiveText(app', CurrentTextInput(app))
                 = Push(ActiveText(app, CurrentTextInput(app)), c)]_vars

\* A viewer state exists exactly in the phase ViewPasswords
ViewerLifetime == (viewer_state # <<>>) <=> (phase[1] = "ViewPasswords")

\* C31: a viewer state exists exactly when the phase is ViewPasswords; every
\* step into the viewer gives the mode Browse with selection 0, no index
\* revealed and an empty edit buffer; every step out of the viewer leaves no
\* viewer state.
C31_ViewerLifetime ==
  [][/\ ViewerLifetime
     /\ ViewerLifetime'
     /\ (phase[1] # "ViewPasswords" /\ phase'[1] = "ViewPasswords")
          => /\ phase' = <<"ViewPasswords", "Browse">>
             /\ viewer_state'[1].selected = 0
             /\ viewer_state'[1].revealed = {}
             /\ viewer_state'[1].edit_buffer = <<>>
     /\ (phase[1] = "ViewPasswords" /\ phase'[1] # "ViewPasswords")
          => viewer_state' = <<>>]_vars

C31_Witness ==
  /\ phase = <<"ViewPasswords", "Browse">>
  /\ op.name = "load" /\ res.ok
  /\ Len(res.entries) = 2
  /\ viewer_state = <<ViewerState(res.entries, 0, {}, <<>>, <<>>)>>

\* C32: in every viewer state the revealed indices are indices of the
\* snapshot (a subset of 0..len-1), so none is revealed when the snapshot is
\* empty.
C32_RevealedAreIndices ==
  viewer_state # <<>>
    => viewer_state[1].revealed \subseteq 0..(Len(viewer_state[1].entries) - 1)

\* The reveal arms leave the snapshot, the selection, the mode and the vault
\* file alone
RevealFrame ==
  /\ viewer_state'[1].entries = viewer_state[1].entries
  /\ viewer_state'[1].selected = viewer_state[1].selected
  /\ phase' = phase
  /\ file' = file

\* C33: in Browse, toggle reveal flips the membership of the selected index
\* and of no other, so that two toggles restore the reveal set; reveal-all
\* makes the reveal set exactly 0..len-1; hide-all makes it empty; none of the
\* three changes the snapshot, the selection, the mode or the vault file.
C33_RevealOperations ==
  /\ [](phase = <<"ViewPasswords", "Browse">>
          => LET state == viewer_state[1]
             IN /\ \A i \in 0..MaxEntries :
                     (i \in ToggleReveal(state).revealed)
                       <=> IF i = state.selected
                           THEN i \notin state.revealed
                           ELSE i \in state.revealed
                /\ ToggleReveal(ToggleReveal(state)) = state
                /\ RevealAll(state).revealed = 0..(Len(state.entries) - 1)
                /\ HideAll(state).revealed = {})
  /\ [][(BrowseToggleReveal \/ BrowseRevealAll \/ BrowseHideAll)
          => RevealFrame]_vars

\* C34: the modes ConfirmDelete, EditName and EditPassword are never active
\* with an empty snapshot: Browse enters them only when the snapshot has an
\* entry.
C34_SubModesNeedEntries ==
  (phase[1] = "ViewPasswords"
     /\ phase[2] \in {"ConfirmDelete", "EditName", "EditPassword"})
    => /\ viewer_state # <<>>
       /\ viewer_state[1].entries # <<>>

C34_Witness ==
  /\ phase = <<"ViewPasswords", "ConfirmDelete">>
  /\ Len(viewer_state[1].entries) = 1
  /\ viewer_state[1].status_message = <<MsgDeleted>>

\* What the session writes.  The session is unlocked with no vault yet and
\* the form holds a length of one character, typed before and the ring of
\* fields walked back to Name: "1", or "0" which is below the least length.
\* Main types and erases the name and saves entries; the viewer edits names
\* and passwords of the first entry, the buffer being erased and extended by blanks.  Salt,
\* nonce and draw are fixed.
BlankChars == {" "}
TypedLengths == {<<"1">>, <<"0">>}

WriteInit ==
  /\ file = <<>>
  /\ store = StorageNew(<<"h">>, <<>>, 1, TRUE).store
  /\ op = NoCall
  /\ res = NoResult
  /\ \E length \in TypedLengths : app = [AppNew EXCEPT !.length_input = length]
  /\ phase = <<"Main">>
  /\ master_input = <<>>
  /\ new_password = <<>>
  /\ confirm_password = <<>>
  /\ viewer_state = <<>>
  /\ running = TRUE

WriteNext ==
  \/ \E c \in MainChars : MainChar(c)
  \/ MainBackspace
  \/ \E d \in SessionDraws, w \in BOOLEAN : MainEnter(d, 1, 1, w)
  \/ MainView
  \/ BrowseQuit
  \/ BrowseEditName
  \/ BrowseEditPassword
  \/ EditEsc
  \/ \E w \in BOOLEAN : EditNameEnter(1, 1, w)
  \/ \E w \in BOOLEAN : EditPasswordEnter(1, 1, w)
  \/ EditBackspace
  \/ \E c \in BlankChars : EditChar(c)

SpecWrite == WriteInit /\ [][WriteNext]_vars

\* Enter in one of the two edit modes
EditEnter ==
  \E n \in Nonces, s \in Salts, w \in BOOLEAN :
    EditNameEnter(n, s, w) \/ EditPasswordEnter(n, s, w)

\* The commit of an edit as the claim describes it: update is called with the
\* selected index and the selected entry changed in the edited field alone;
\* on success the snapshot has that entry at the selected index, on failure the
\* snapshot is as before and the status is the error; the mode is Browse and
\* the buffer is empty.
CommitsEdit ==
  LET state == viewer_state[1]
      old == state.entries[state.selected + 1]
      entry == IF phase[2] = "EditName"
               THEN [name |-> state.edit_buffer, password |-> old.password,
                     created_at |-> old.created_at]
               ELSE [name |-> old.name, password |-> state.edit_buffer,
                     created_at |-> old.created_at]
  IN /\ op'.name = "update"
     /\ op'.index = state.selected
     /\ op'.entry = entry
     /\ IF res'.ok
        THEN /\ Len(viewer_state'[1].entries) = Len(state.entries)
             /\ \A k \in 1..Len(state.entries) :
                  viewer_state'[1].entries[k]
                    = IF k = state.selected + 1 THEN entry ELSE state.entries[k]
        ELSE /\ viewer_state'[1].entries = state.entries
             /\ viewer_state'[1].status_message = <<Format("x ", res'.err)>>
     /\ phase' = <<"ViewPasswords", "Browse">>
     /\ viewer_state'[1].edit_buffer = <<>>

\* C35 as stated: Enter in EditName or EditPassword with a non-empty buffer
\* calls update with the selected entry changed in the edited field alone,
\* replaces the local copy on success, keeps the snapshot and shows an error
\* on failure, and returns to Browse with an empty buffer.
C35_NonEmptyBufferCommits ==
  [][(/\ phase[1] = "ViewPasswords"
      /\ phase[2] \in {"EditName", "EditPassword"}
      /\ viewer_state[1].edit_buffer # <<>>
      /\ EditEnter)
       => CommitsEdit]_vars

\* C35 amended: the same for a buffer that is not blank in EditName (not
\* empty after trimming) and not empty in EditPassword.
C35_NonBlankBufferCommits ==
  [][(/\ phase[1] = "ViewPasswords"
      /\ phase[2] \in {"EditName", "EditPassword"}
      /\ IF phase[2] = "EditName"
         THEN Trim(viewer_state[1].edit_buffer) # <<>>
         ELSE viewer_state[1].edit_buffer # <<>>
      /\ EditEnter)
       => CommitsEdit]_vars

C35_Witness ==
  /\ phase = <<"ViewPasswords", "Browse">>
  /\ op.name = "update" /\ res.ok
  /\ op.entry.name = <<"g", " ">>
  /\ viewer_state[1].entries[op.index + 1] = op.entry
  /\ Len(viewer_state[1].entries) = 2
  /\ viewer_state[1].edit_buffer = <<>>

\* C36: declining a delete in ConfirmDelete returns to Browse and leaves the
\* snapshot, the selected index, the reveal set and the vault file unchanged.
C36_DeclineChangesNothing ==
  [][ConfirmDeleteNo
       => /\ phase' = <<"ViewPasswords", "Browse">>
          /\ viewer_state'[1].entries = viewer_state[1].entries
          /\ viewer_state'[1].selected = viewer_state[1].selected
          /\ viewer_state'[1].revealed = viewer_state[1].revealed
          /\ file' = file
          /\ store' = store]_vars

C36_Witness ==
  /\ phase = <<"ViewPasswords", "ConfirmDelete">>
  /\ Len(viewer_state[1].entries) = 2
  /\ viewer_state[1].selected = 1
  /\ viewer_state[1].revealed = {0, 1}
  /\ viewer_state[1].status_message = <<MsgCopied>>

\* The commits the session refuses: Enter in Main with a blank name or a
\* length below 1, Enter in EditName with a blank buffer, Enter in EditPassword
\* with an empty buffer
RefusedCommit ==
  \/ /\ phase = <<"Main">>
     /\ \/ Trim(app.name_input) = <<>>
        \/ ParseUsize(app.length_input).ok /\ ParseUsize(app.length_input).val < 1
     /\ EnterInMain
  \/ /\ phase = <<"ViewPasswords", "EditName">>
     /\ Trim(viewer_state[1].edit_buffer) = <<>>
     /\ EditEnter
  \/ /\ phase = <<"ViewPasswords", "EditPassword">>
     /\ viewer_state[1].edit_buffer = <<>>
     /\ EditEnter

\* C37: every entry in the vault the session writes has a name that is not
\* empty after trimming and a password that is not empty; a refused commit
\* calls neither save nor update and leaves the file as it was.
C37_WrittenEntriesAreNamed ==
  /\ [](\A k \in 1..Len(Stored(file)) :
          /\ Trim(Stored(file)[k].name) # <<>>
          /\ Stored(file)[k].password # <<>>)
  /\ [][RefusedCommit
          => /\ file' = file
             /\ op'.name \notin {"save", "update"}]_vars

C37_Witness ==
  /\ phase = <<"ViewPasswords", "Browse">>
  /\ Len(Stored(file)) = 2
  /\ Stored(file)[1].name = <<"g", " ">>
  /\ Stored(file)[1].password = <<" ">>
  /\ op = NoCall
  /\ viewer_state[1].entries = Stored(file)

\* C38: 'v' in Main loads the entries through the bound store: when the load
\* succeeds the phase becomes ViewPasswords in Browse and the viewer holds
\* exactly the loaded list; when it fails the phase stays Main, an error is
\* set and there is no viewer state.
C38_ViewerStartsFromLoad ==
  [][(phase = <<"Main">> /\ store # <<>> /\ MainView)
       => LET r == Load(store[1], file)
          IN /\ op'.name = "load"
             /\ IF r.ok
                THEN /\ phase' = <<"ViewPasswords", "Browse">>
                     /\ viewer_state' # <<>>
                     /\ viewer_state'[1].entries = r.entries
                ELSE /\ phase' = <<"Main">>
                     /\ app'.error # <<>>
                     /\ viewer_state' = <<>>]_vars

C38_Witness ==
  /\ phase = <<"Main">>
  /\ op.name = "load" /\ ~res.ok
  /\ Len(Stored(file)) = 2
  /\ app.error = <<Format("Failed to load: ", ErrDecrypt)>>
  /\ viewer_state = <<>>

====
